---- MODULE Spec2Model ----
(***************************************************************************)
(* The JSON-backed identity store of VoiceGuard (src/db.py) and the way    *)
(* the application (src/main.py) drives it.                                *)
(*                                                                         *)
(* State: the content of users.json, the User objects the callers hold     *)
(* (only User.id is ever mutated), the pending list _new of every session, *)
(* and the similarity threshold in memory and in config.json.              *)
(* Operations: init_db, _Session.add, _Session.commit, _Session.query and  *)
(* delete_user; the steps of these under interleaving threads; and the     *)
(* workflows of the application: registration, verification, the settings  *)
(* save and the admin panel.                                               *)
(***************************************************************************)
EXTENDS Integers, Sequences, FiniteSets, TLC

(***************************************************************************)
(* Bounds of the model.                                                    *)
(***************************************************************************)
\* at most this many records are pending, over all sessions together
MaxPending == 2
\* a commit is only taken when the store afterwards holds at most this many
MaxStore == 2

\* a users file found at start holds at most this many entries
MaxEntries == 1

\* the User objects the callers construct, and the sessions they open
Objs == {"u1", "u2"}
Sessions == {"app", "other"}

\* User.id of a record that was never committed (id: int | None = None)
None == -1
\* an argument of add that is not a User instance
NonUser == "not_a_user"
\* an argument of delete_user that is not an int
NonInt == None - 1


(***************************************************************************)
(* Plain helpers on sequences.                                             *)
(***************************************************************************)
Range(q) == {q[i] : i \in 1..Len(q)}

\* max(S or [0])
SetMax(S) == IF S = {} THEN 0 ELSE CHOOSE x \in S : \A y \in S : y <= x

RECURSIVE Filter(_, _)
\* the entries of q that are dicts whose "id" differs from user_id, in order
Filter(q, user_id) ==
  IF q = <<>> THEN <<>>
  ELSE LET h == Head(q)
           hid == IF "id" \in DOMAIN h.d THEN h.d.id ELSE None
       IN IF hid # user_id THEN <<h>> \o Filter(Tail(q), user_id)
          ELSE Filter(Tail(q), user_id)

(***************************************************************************)
(* Characters.  A text is a sequence of characters.  A character of ASCII  *)
(* that can be written in a string is the string of it; every other        *)
(* character is written U+ and its code point, and Named gives the code    *)
(* point of each of these.                                                 *)
(***************************************************************************)
Digit == <<"0", "1", "2", "3", "4", "5", "6", "7", "8", "9">>
DigitVal == [c \in {Digit[n] : n \in 1..10} |-> (CHOOSE n \in 1..10 : Digit[n] = c) - 1]
\* c is one of the ASCII digits 0 to 9
IsDigit(c) == c \in DOMAIN DigitVal

\* the characters of the texts that are written by name: the vertical tab,
\* the file separator, next line, the no-break space, e acute, u umlaut,
\* the Arabic-Indic digits, the em space, the euro sign, the ideographic
\* space, the full-width digits and the mathematical bold digits
Named ==
  [c \in {"U+000B", "U+001C", "U+0085", "U+00A0", "U+00E9", "U+00FC", "U+2003", "U+20AC",
          "U+3000"} |->
     CASE c = "U+000B" -> 11 [] c = "U+001C" -> 28 [] c = "U+0085" -> 133
       [] c = "U+00A0" -> 160 [] c = "U+00E9" -> 233 [] c = "U+00FC" -> 252
       [] c = "U+2003" -> 8195 [] c = "U+20AC" -> 8364 [] c = "U+3000" -> 12288]
  @@ [c \in {"U+0660", "U+0661", "U+0662", "U+0663", "U+0664", "U+0665", "U+0666",
             "U+0667", "U+0668", "U+0669"} |->
        1632 + (CHOOSE n \in 0..9 :
                  c = <<"U+0660", "U+0661", "U+0662", "U+0663", "U+0664", "U+0665",
                        "U+0666", "U+0667", "U+0668", "U+0669">>[n + 1])]
  @@ [c \in {"U+FF10", "U+FF11", "U+FF12", "U+FF13", "U+FF14", "U+FF15", "U+FF16",
             "U+FF17", "U+FF18", "U+FF19"} |->
        65296 + (CHOOSE n \in 0..9 :
                   c = <<"U+FF10", "U+FF11", "U+FF12", "U+FF13", "U+FF14", "U+FF15",
                         "U+FF16", "U+FF17", "U+FF18", "U+FF19">>[n + 1])]
  @@ [c \in {"U+1D7CE", "U+1D7CF", "U+1D7D0", "U+1D7D1", "U+1D7D2", "U+1D7D3", "U+1D7D4",
             "U+1D7D5", "U+1D7D6", "U+1D7D7"} |->
        120782 + (CHOOSE n \in 0..9 :
                    c = <<"U+1D7CE", "U+1D7CF", "U+1D7D0", "U+1D7D1", "U+1D7D2", "U+1D7D3",
                          "U+1D7D4", "U+1D7D5", "U+1D7D6", "U+1D7D7">>[n + 1])]

\* c is a character of ASCII
IsAscii(c) == c \notin DOMAIN Named \/ Named[c] < 128

\* the code points of the digit 0 of the decimal digits outside ASCII
\* (Unicode category Nd) among the named characters
DigitZeros == {1632, 65296, 120782}

\* c is a decimal digit of Unicode: what a \d of re matches and what int
\* and float read as a digit
IsDecimal(c) ==
  \/ IsDigit(c)
  \/ c \in DOMAIN Named /\ \E z \in DigitZeros : Named[c] - z \in 0..9

\* the digit a decimal digit of Unicode stands for
DecimalVal(c) ==
  IF IsDigit(c) THEN DigitVal[c]
  ELSE Named[c] - (CHOOSE z \in DigitZeros : Named[c] - z \in 0..9)

\* the code points outside ASCII that are white space (Py_UNICODE_ISSPACE)
WideSpaces ==
  {133, 160, 5760, 8232, 8233, 8239, 8287, 12288} \cup (8192..8202)

\* c is white space outside ASCII
IsWideSpace(c) == c \in DOMAIN Named /\ Named[c] \in WideSpaces

(***************************************************************************)
(* datetime.date: isoformat and fromisoformat.                             *)
(***************************************************************************)

RECURSIVE Pow10(_)
Pow10(n) == IF n = 0 THEN 1 ELSE 10 * Pow10(n - 1)

RECURSIVE DecLen(_)
\* the number of decimal digits of n
DecLen(n) == IF n < 10 THEN 1 ELSE 1 + DecLen(n \div 10)

\* n, zero padded to w digits
Pad(n, w) == [i \in 1..w |-> Digit[((n \div Pow10(w - i)) % 10) + 1]]

RECURSIVE NumUpTo(_, _)
NumUpTo(t, n) == IF n = 0 THEN 0 ELSE 10 * NumUpTo(t, n - 1) + DecimalVal(t[n])

\* the number a text of decimal digits denotes: int(t)
Num(t) == NumUpTo(t, Len(t))

\* every character of t is an ASCII digit
AllDigits(t) == \A i \in 1..Len(t) : IsDigit(t[i])

\* every character of t is a decimal digit of Unicode
AllDecimal(t) == \A i \in 1..Len(t) : IsDecimal(t[i])

IsLeap(y) == (y % 4 = 0) /\ ((y % 100 # 0) \/ (y % 400 = 0))
DaysInMonth(y, m) ==
  IF m = 2 THEN (IF IsLeap(y) THEN 29 ELSE 28)
  ELSE IF m \in {4, 6, 9, 11} THEN 30 ELSE 31
ValidDate(y, m, d) ==
  /\ y \in 1..9999
  /\ m \in 1..12
  /\ d \in 1..DaysInMonth(y, m)

\* the digits of n >= 0 without padding
RECURSIVE Unpadded(_)
Unpadded(n) == IF n < 10 THEN <<Digit[n + 1]>> ELSE Unpadded(n \div 10) \o <<Digit[(n % 10) + 1]>>

\* year, month and day joined without zero padding
isoformat_unpadded(dt) ==
  Unpadded(dt.y) \o <<"-">> \o Unpadded(dt.m) \o <<"-">> \o Unpadded(dt.d)

\* date.isoformat(): YYYY-MM-DD
isoformat(dt) == Pad(dt.y, 4) \o <<"-">> \o Pad(dt.m, 2) \o <<"-">> \o Pad(dt.d, 2)

\* the character at place i of text t; "" past its end
CharAt(t, i) == IF i \in 1..Len(t) THEN t[i] ELSE ""

\* the days before 1 January of year y, counted from 1 January of year 1
DaysBeforeYear(y) ==
  (y - 1) * 365 + ((y - 1) \div 4) - ((y - 1) \div 100) + ((y - 1) \div 400)

RECURSIVE DaysBeforeMonth(_, _)
\* the days of year y before the first of month m
DaysBeforeMonth(y, m) ==
  IF m = 1 THEN 0 ELSE DaysBeforeMonth(y, m - 1) + DaysInMonth(y, m - 1)

\* the ordinal of a date, 1 January of year 1 being day 1
YmdToOrd(y, m, d) == DaysBeforeYear(y) + DaysBeforeMonth(y, m) + d

\* the date of ordinal n, which lies in year near - 1, near or near + 1
OrdToYmd(n, near) ==
  LET y == CHOOSE x \in {near - 1, near, near + 1} :
             DaysBeforeYear(x) < n /\ n <= DaysBeforeYear(x + 1)
      k == n - DaysBeforeYear(y)
      m == CHOOSE x \in 1..12 :
             DaysBeforeMonth(y, x) < k /\ k <= DaysBeforeMonth(y, x) + DaysInMonth(y, x)
  IN [y |-> y, m |-> m, d |-> k - DaysBeforeMonth(y, m)]

\* the day of the week of a date, Monday being 0
Weekday(y, m, d) == (YmdToOrd(y, m, d) + 6) % 7

\* the ordinal of the Monday of ISO week 1 of year y
IsoWeek1Monday(y) ==
  LET firstday == YmdToOrd(y, 1, 1)
      firstweekday == Weekday(y, 1, 1)
  IN IF firstweekday > 3 THEN firstday - firstweekday + 7 ELSE firstday - firstweekday

\* year y has ISO week w: 1 to 52, and 53 in a year that starts on a
\* Thursday or is a leap year that starts on a Wednesday
HasIsoWeek(y, w) ==
  \/ w \in 1..52
  \/ /\ w = 53
     /\ \/ Weekday(y, 1, 1) = 3
        \/ Weekday(y, 1, 1) = 2 /\ IsLeap(y)

\* the year, month and day texts of the date that ISO year y, week w and
\* day d of the week denote; <<>> where there is no such date in years 1
\* to 9999
WeekDateParts(y, w, d) ==
  IF ~(y \in 1..9999 /\ HasIsoWeek(y, w) /\ d \in 1..7) THEN <<>>
  ELSE LET n == IsoWeek1Monday(y) + (w - 1) * 7 + (d - 1)
       IN IF n > DaysBeforeYear(10000) THEN <<>>
          ELSE LET dt == OrdToYmd(n, y)
               IN <<Pad(dt.y, 4), Pad(dt.m, 2), Pad(dt.d, 2)>>

\* the week form, the W at place p: two digits of the week and, when text
\* is left, the separator the year was followed by and one digit of the day
IsoWeekParts(t, sep, p) ==
  LET r == p + 3
      q == IF sep THEN r + 1 ELSE r
  IN IF ~(AllDigits(SubSeq(t, 1, 4)) /\ IsDigit(CharAt(t, p + 1)) /\ IsDigit(CharAt(t, p + 2)))
     THEN <<>>
     ELSE IF r > Len(t)
     THEN WeekDateParts(Num(SubSeq(t, 1, 4)), Num(SubSeq(t, p + 1, p + 2)), 1)
     ELSE IF (sep /\ CharAt(t, r) # "-") \/ ~IsDigit(CharAt(t, q))
     THEN <<>>
     ELSE WeekDateParts(Num(SubSeq(t, 1, 4)), Num(SubSeq(t, p + 1, p + 2)), DigitVal[t[q]])

\* the number of bytes of character c in UTF-8
Utf8Len(c) ==
  IF IsAscii(c) THEN 1
  ELSE IF Named[c] < 2048 THEN 2
  ELSE IF Named[c] < 65536 THEN 3
  ELSE 4

\* the bytes of character c in UTF-8: a character of ASCII is its own
\* byte, and every byte of another character is one of 0x80 to 0xFF, none
\* of which is a byte of a digit, of the dash or of the W
Utf8Char(c) == IF IsAscii(c) THEN <<c>> ELSE [i \in 1..Utf8Len(c) |-> "0x80..0xFF"]

RECURSIVE Utf8(_)
\* PyUnicode_AsUTF8AndSize: the bytes of text t in UTF-8
Utf8(t) ==
  IF \A i \in 1..Len(t) : IsAscii(t[i]) THEN t
  ELSE Utf8Char(Head(t)) \o Utf8(Tail(t))

\* the year, month and day texts date.fromisoformat (Python 3.11) reads in
\* a text whose UTF-8 encoding has 7, 8 or 10 bytes: four bytes of the year,
\* a separator or none, then two of the month and two of the day
\* (YYYY-MM-DD, YYYYMMDD) or a week form (YYYY-Www, YYYYWww, YYYY-Www-D,
\* YYYYWwwD), for which these are the texts of the date it denotes; what
\* follows the day is not looked at; <<>> when the text has neither shape
IsoParts(t) ==
  LET b == Utf8(t)
  IN IF Len(b) \notin {7, 8, 10} THEN <<>>
     ELSE LET sep == CharAt(b, 5) = "-"
              p == IF sep THEN 6 ELSE 5
              q == IF sep THEN p + 3 ELSE p + 2
          IN IF CharAt(b, p) = "W" THEN IsoWeekParts(b, sep, p)
             ELSE IF (sep /\ CharAt(b, p + 2) # "-") \/ q + 1 > Len(b) THEN <<>>
             ELSE <<SubSeq(b, 1, 4), SubSeq(b, p, p + 1), SubSeq(b, q, q + 1)>>

\* what date.fromisoformat makes of the year, month and day texts p it has
\* read: it returns the date (ok), or raises ValueError
IsoDate(p) ==
  IF /\ p # <<>>
     /\ AllDigits(p[1]) /\ AllDigits(p[2]) /\ AllDigits(p[3])
     /\ ValidDate(Num(p[1]), Num(p[2]), Num(p[3]))
  THEN [ok |-> TRUE, date |-> [y |-> Num(p[1]), m |-> Num(p[2]), d |-> Num(p[3])]]
  ELSE [ok |-> FALSE, date |-> [y |-> 0, m |-> 0, d |-> 0]]

\* the texts a commit stores for the dates of birth of the persons who
\* enroll, and what date.fromisoformat makes of each: every read of the
\* store parses them again, and here each is parsed once
EnrolledDates ==
  { <<"1", "8", "1", "5", "-", "1", "2", "-", "1", "0">>,
    <<"1", "9", "1", "2", "-", "0", "6", "-", "2", "3">>,
    <<"1", "9", "0", "6", "-", "1", "2", "-", "0", "9">> }
EnrolledDate == [t \in EnrolledDates |-> IsoDate(IsoParts(t))]

\* what date.fromisoformat(t) does
FromIso(t) == IF t \in EnrolledDates THEN EnrolledDate[t] ELSE IsoDate(IsoParts(t))

\* date.fromisoformat(t) returns (TRUE) or raises ValueError (FALSE)
ParsesIso(t) == FromIso(t).ok

fromisoformat(t) == FromIso(t).date

\* datetime.strptime(t, "%Y-%m-%d"): the texts of the year, the month and
\* the day in a text with two dashes, a blank in front of the day dropped;
\* <<>> for another text
StrptimeParts(t) ==
  LET dashes == {i \in 1..Len(t) : t[i] = "-"}
  IN IF Cardinality(dashes) # 2 THEN <<>>
     ELSE LET i == CHOOSE x \in dashes : \A y \in dashes : x <= y
              j == CHOOSE x \in dashes : \A y \in dashes : y <= x
              day == SubSeq(t, j + 1, Len(t))
          IN <<SubSeq(t, 1, i - 1), SubSeq(t, i + 1, j - 1),
               IF Len(day) = 2 /\ day[1] = " " THEN Tail(day) ELSE day>>

\* the text of the month matches 1[0-2]|0[1-9]|[1-9]: ASCII digits only
MonthMatches(mo) == Len(mo) \in 1..2 /\ AllDigits(mo) /\ Num(mo) \in 1..12

\* the text of the day, as typed, matches 3[0-1]|[1-2]\d|0[1-9]|[1-9]| [1-9]
\* to its end: of its digits only the one after a 1 or a 2 may be a digit
\* outside ASCII
DayMatches(day) ==
  \/ Len(day) = 1 /\ IsDigit(day[1]) /\ day[1] # "0"
  \/ /\ Len(day) = 2
     /\ \/ day[1] = "3" /\ day[2] \in {"0", "1"}
        \/ day[1] \in {"1", "2"} /\ IsDecimal(day[2])
        \/ day[1] \in {"0", " "} /\ IsDigit(day[2]) /\ day[2] # "0"

\* strptime returns (TRUE) or raises ValueError (FALSE): the year is four
\* decimal digits of Unicode (\d\d\d\d), and the date exists
StrptimeParses(t) ==
  LET p == StrptimeParts(t)
      dashes == {i \in 1..Len(t) : t[i] = "-"}
  IN /\ p # <<>>
     /\ Len(p[1]) = 4 /\ AllDecimal(p[1])
     /\ MonthMatches(p[2])
     /\ DayMatches(SubSeq(t, SetMax(dashes) + 1, Len(t)))
     /\ ValidDate(Num(p[1]), Num(p[2]), Num(p[3]))

\* datetime.strptime(t, "%Y-%m-%d").date()
strptime(t) ==
  LET p == StrptimeParts(t)
  IN [y |-> Num(p[1]), m |-> Num(p[2]), d |-> Num(p[3])]

(***************************************************************************)
(* Numbers.  A float is kept as the fraction it stands for, in lowest      *)
(* terms: [t |-> "float", num |-> n, den |-> d] with d > 0; not-a-number   *)
(* and the infinities are values of their own.  The embeddings here have   *)
(* whole components and a whole norm, for which norm, dot product and the  *)
(* one division of the cosine are exact or correctly rounded, so that two  *)
(* scores, and a score and a threshold read from decimal text, compare as  *)
(* their fractions do; or they have components whose squares are too       *)
(* large for a float64, for which the norm is infinite.                    *)
(***************************************************************************)
RECURSIVE GCD(_, _)
GCD(a, b) == IF b = 0 THEN a ELSE GCD(b, a % b)

Abs(n) == IF n < 0 THEN 0 - n ELSE n

Float(n, d) ==
  LET g == GCD(Abs(n), d)
  IN [t |-> "float", num |-> n \div g, den |-> d \div g]
NaN == [t |-> "nan"]
Inf == [t |-> "inf"]
NegInf == [t |-> "-inf"]
Zero == Float(0, 1)
One == Float(1, 1)

\* x >= y on floats; every comparison with not-a-number is False
Geq(x, y) ==
  CASE x.t = "nan" \/ y.t = "nan" -> FALSE
    [] x.t = "inf" \/ y.t = "-inf" -> TRUE
    [] x.t = "-inf" \/ y.t = "inf" -> FALSE
    [] OTHER -> x.num * y.den >= y.num * x.den

\* x > y in place of x >= y
Gt(x, y) == Geq(x, y) /\ ~Geq(y, x)

\* float(t) on a text whose digits and exponent keep the numerator and the
\* denominator of its value below 2^31.  First every decimal digit outside
\* ASCII becomes its ASCII digit, every white space outside ASCII a blank
\* and every other character outside ASCII a question mark
\* (_PyUnicode_TransformDecimalAndSpaceToASCII); then the blanks around the
\* text are dropped, an underscore may stand between two digits, and there
\* comes an optional sign and nan, inf or infinity in any case, or digits
\* with at most one point among them and an optional exponent
AsciiOf(c) ==
  IF IsAscii(c) THEN c
  ELSE IF IsWideSpace(c) THEN " "
  ELSE IF IsDecimal(c) THEN Digit[DecimalVal(c) + 1]
  ELSE "?"

Transformed(t) == [i \in 1..Len(t) |-> AsciiOf(t[i])]

\* Py_ISSPACE: blank, tab, line feed, vertical tab, form feed, return
Blanks == {" ", "\t", "\n", "U+000B", "\f", "\r"}

RECURSIVE LStrip(_)
LStrip(t) == IF t # <<>> /\ Head(t) \in Blanks THEN LStrip(Tail(t)) ELSE t

RECURSIVE RStrip(_)
RStrip(t) ==
  IF t # <<>> /\ t[Len(t)] \in Blanks THEN RStrip(SubSeq(t, 1, Len(t) - 1)) ELSE t

\* the text between the blanks float skips at its start and at its end
Strip(t) == RStrip(LStrip(Transformed(t)))

\* every underscore of s stands between two digits
UnderscoresFit(s) ==
  \A i \in 1..Len(s) :
    s[i] = "_" => IsDigit(CharAt(s, i - 1)) /\ IsDigit(CharAt(s, i + 1))

NoUnderscore(c) == c # "_"

UpperCase == <<"A", "B", "C", "D", "E", "F", "G", "H", "I", "J", "K", "L", "M",
               "N", "O", "P", "Q", "R", "S", "T", "U", "V", "W", "X", "Y", "Z">>
LowerCase == <<"a", "b", "c", "d", "e", "f", "g", "h", "i", "j", "k", "l", "m",
               "n", "o", "p", "q", "r", "s", "t", "u", "v", "w", "x", "y", "z">>
Lower(c) ==
  IF c \in Range(UpperCase)
  THEN LowerCase[CHOOSE k \in 1..26 : UpperCase[k] = c]
  ELSE c

\* s in lower case
Lowered(s) == [i \in 1..Len(s) |-> Lower(s[i])]

\* the text float reads: without the blanks around it and the underscores,
\* in lower case
FloatText(t) == Lowered(SelectSeq(Strip(t), NoUnderscore))

\* the length of the sign that float text s starts with
FloatSign(s) == IF s # <<>> /\ s[1] \in {"+", "-"} THEN 1 ELSE 0
\* float text s after its sign
FloatBody(s) == IF FloatSign(s) = 1 THEN Tail(s) ELSE s
FloatPoints(b) == {i \in 1..Len(b) : b[i] = "."}

\* the place of the e of the exponent in body b; 0 when it has none
ExponentAt(b) ==
  IF \E i \in 1..Len(b) : b[i] = "e" THEN CHOOSE i \in 1..Len(b) : b[i] = "e" ELSE 0

\* the digits and point before the exponent
Mantissa(b) == IF ExponentAt(b) = 0 THEN b ELSE SubSeq(b, 1, ExponentAt(b) - 1)

\* the text of the exponent after its e, a sign of its own dropped
ExponentDigits(b) ==
  LET x == SubSeq(b, ExponentAt(b) + 1, Len(b))
  IN IF x # <<>> /\ x[1] \in {"+", "-"} THEN Tail(x) ELSE x

\* the exponent of body b; 0 when it has none
Exponent(b) ==
  IF ExponentAt(b) = 0 THEN 0
  ELSE IF CharAt(b, ExponentAt(b) + 1) = "-" THEN 0 - Num(ExponentDigits(b))
  ELSE Num(ExponentDigits(b))

NaNTexts == {<<"n", "a", "n">>}
InfTexts == {<<"i", "n", "f">>, <<"i", "n", "f", "i", "n", "i", "t", "y">>}

\* the digits x of an exponent are there and are digits
ExponentFits(x) == x # <<>> /\ AllDigits(x)

\* body b with the mantissa m is nan, inf or infinity, or a number
MantissaFits(b, m) ==
  \/ b \in NaNTexts \cup InfTexts
  \/ /\ Cardinality(FloatPoints(m)) <= 1
     /\ \E i \in 1..Len(m) : IsDigit(m[i])
     /\ \A i \in 1..Len(m) : IsDigit(m[i]) \/ m[i] = "."
     /\ ExponentAt(b) # 0 => ExponentFits(ExponentDigits(b))

\* body b is what float reads
BodyFits(b) == MantissaFits(b, Mantissa(b))

\* float(t) returns (TRUE) or raises ValueError (FALSE)
FloatParses(t) == UnderscoresFit(Strip(t)) /\ BodyFits(FloatBody(FloatText(t)))

\* n * 10^e, negated where negative
Scale(negative, n, e) ==
  Float((IF negative THEN 0 - n ELSE n) * (IF e > 0 THEN Pow10(e) ELSE 1),
        IF e < 0 THEN Pow10(0 - e) ELSE 1)

\* the digits after the point of mantissa m, counted
FractionLen(m, points) == IF points = {} THEN 0 ELSE Len(m) - (CHOOSE i \in points : TRUE)

\* the float of body b, whose mantissa is m
MantissaValue(negative, b, m) ==
  Scale(negative, Num(SelectSeq(m, IsDigit)), Exponent(b) - FractionLen(m, FloatPoints(m)))

\* the float of body b
BodyValue(negative, b) ==
  CASE b \in NaNTexts -> NaN
    [] b \in InfTexts -> (IF negative THEN NegInf ELSE Inf)
    [] OTHER -> MantissaValue(negative, b, Mantissa(b))

\* the float of float text s
TextValue(s) == BodyValue(FloatSign(s) = 1 /\ s[1] = "-", FloatBody(s))

float(t) == TextValue(FloatText(t))

(***************************************************************************)
(* Embeddings.  A component of a vector is a float64 m * 10^e with a whole *)
(* m, Dec(m, e): a whole number (e = 0), or a number whose square is too   *)
(* large for a float64 (e = 200).  The text of a vector is the JSON text   *)
(* json.dumps gives for the list of these floats, as in [3.0, 4.0] and     *)
(* [3e+200, 4e+200].                                                       *)
(***************************************************************************)
Dec(m, e) == [t |-> "dec", m |-> m, e |-> e]

\* the vector of the whole numbers of q
Vec(q) == [i \in 1..Len(q) |-> Dec(q[i], 0)]

\* the vector of the numbers of q, each times 10^e
Scaled(q, e) == [i \in 1..Len(q) |-> Dec(q[i], e)]

\* float.__repr__ of component x: 3.0, and 3e+200 for an m from 1 to 9
FloatRepr(x) ==
  IF x.e = 0 THEN Unpadded(x.m) \o <<".", "0">>
  ELSE Unpadded(x.m) \o <<"e", "+">> \o Unpadded(x.e)

RECURSIVE json_dumps(_)
json_dumps(v) ==
  IF v = <<>> THEN <<"[", "]">>
  ELSE IF Len(v) = 1 THEN <<"[">> \o FloatRepr(v[1]) \o <<"]">>
  ELSE <<"[">> \o FloatRepr(v[1]) \o <<",", " ">> \o Tail(json_dumps(Tail(v)))

RECURSIVE Items(_, _)
\* the texts between the commas of t, cur being the one that is open
Items(t, cur) ==
  IF t = <<>> THEN (IF cur = <<>> THEN <<>> ELSE <<cur>>)
  ELSE IF Head(t) = "," THEN <<cur>> \o Items(Tail(Tail(t)), <<>>)
  ELSE Items(Tail(t), Append(cur, Head(t)))

\* the float64 a text float.__repr__ has written denotes
FloatOf(item) ==
  IF \E i \in 1..Len(item) : item[i] = "e"
  THEN LET i == CHOOSE k \in 1..Len(item) : item[k] = "e"
       IN Dec(Num(SubSeq(item, 1, i - 1)), Num(SubSeq(item, i + 2, Len(item))))
  ELSE Dec(Num(SubSeq(item, 1, Len(item) - 2)), 0)

\* json.loads(t) of a text json.dumps has written for such a list
json_loads(t) ==
  LET items == Items(SubSeq(t, 2, Len(t) - 1), <<>>)
  IN [i \in 1..Len(items) |-> FloatOf(items[i])]

\* x * y in float64: a product of 10^309 or more is infinite (none of the
\* products here lies between the largest float64, 1.797... * 10^308, and
\* 10^309)
Times(x, y) ==
  IF x.m = 0 \/ y.m = 0 THEN Dec(0, 0)
  ELSE IF DecLen(Abs(x.m * y.m)) + x.e + y.e > 309 THEN Inf
  ELSE Dec(x.m * y.m, x.e + y.e)

RECURSIVE SumTo(_, _, _)
\* the sum of the first n of the terms that have the exponent e
SumTo(terms, e, n) ==
  IF n = 0 THEN 0
  ELSE SumTo(terms, e, n - 1) + (IF terms[n].e = e THEN terms[n].m ELSE 0)

\* np.dot of two vectors of one length, in float64: infinite once a product
\* is; a whole number added to one of 10^200 and more leaves that as it is
dot(a, b) ==
  LET terms == [i \in 1..Len(a) |-> Times(a[i], b[i])]
      e == SetMax({terms[i].e : i \in {j \in 1..Len(a) : terms[j].t = "dec"}})
  IN IF \E i \in 1..Len(a) : terms[i].t = "inf" THEN Inf
     ELSE Dec(SumTo(terms, e, Len(a)), e)

\* np.linalg.norm of a vector, sqrt(x.dot(x)): the whole root of a whole
\* number, infinite where x.dot(x) is
norm(a) ==
  LET sqnorm == dot(a, a)
  IN IF sqnorm.t = "inf" THEN Inf
     ELSE Float(CHOOSE n \in 0..sqnorm.m : n * n = sqnorm.m, 1)

\* the product of two norms in float64: zero times infinity is not-a-number
NormProduct(x, y) ==
  CASE x.t = "inf" -> (IF y = Zero THEN NaN ELSE Inf)
    [] y.t = "inf" -> (IF x = Zero THEN NaN ELSE Inf)
    [] OTHER -> Float(x.num * y.num, 1)

\* dot product p divided by a denom that is not zero, in float64
Quotient(p, denom) ==
  CASE denom.t = "nan" -> NaN
    [] p.t = "inf" -> (IF denom.t = "inf" THEN NaN ELSE Inf)
    [] denom.t = "inf" -> Zero
    [] OTHER -> Float(p.m, denom.num)

\* what a call that raises is scored as
Raise == [t |-> "raise"]

\* cos_sim(a, b): denom is true unless it is zero, so also when it is
\* not-a-number; np.dot is only evaluated where denom is true, and raises
\* ValueError on vectors of different lengths
cos_sim(a, b) ==
  LET denom == NormProduct(norm(a), norm(b))
  IN IF denom # Zero
     THEN (IF Len(a) # Len(b) THEN Raise ELSE Quotient(dot(a, b), denom))
     ELSE Zero

\* the smallest element of a non-empty set of numbers
SetMin(S) == CHOOSE x \in S : \A y \in S : x <= y

\* the places of the largest score
Maxima(scores) ==
  {i \in 1..Len(scores) : \A j \in 1..Len(scores) : Geq(scores[i], scores[j])}

\* the index of the last occurrence of the largest score
argmax_last(scores) == SetMax(Maxima(scores))

\* np.argmax(similarities), counted from 1: the first occurrence of the
\* largest score, not-a-number counting as the largest
argmax(scores) ==
  LET nans == {i \in 1..Len(scores) : scores[i] = NaN}
  IN IF nans # {} THEN SetMin(nans) ELSE SetMin(Maxima(scores))

(***************************************************************************)
(* JSON values: [t |-> "list", v |-> <<...>>], [t |-> "dict", d |-> a      *)
(* record of the keys], [t |-> "num"], [t |-> "str", s |-> <<...>>].       *)
(* The users file is missing, holds bytes that are not UTF-8, holds text   *)
(* that is not JSON (empty or cut short included), or holds a value.       *)
(***************************************************************************)
JList(q) == [t |-> "list", v |-> q]
JDict(r) == [t |-> "dict", d |-> r]
JNum == [t |-> "num"]
JStr(text) == [t |-> "str", s |-> text]
\* a key of a dict: a string, which one makes no difference to its readers
JKey == JStr(<<"k">>)
\* the dict without keys
EmptyDict == JDict([k \in {} |-> JNum])

Missing == [kind |-> "missing"]
BadJson == [kind |-> "badjson"]
NotUtf8 == [kind |-> "notutf8"]
JsonFile(v) == [kind |-> "json", data |-> v]

VARIABLES
  users_file,    \* the content of USERS_FILE
  uid,           \* User.id of every User object the callers hold
  new,           \* _Session._new of every session: a list of User objects
  max_assigned,  \* history: the largest id a successful commit has assigned
  last,          \* history: the last call, its arguments and its outcome
  pc,            \* where every enrollment worker thread stands
  cur,           \* current_users of the commit a worker is in
  buf,           \* the listing a worker's commit is about to write
  enum_idx,      \* how many pending records the id loop of a worker's commit has passed
  at_open,       \* history: the file content a worker's commit has opened for writing
  del,           \* the delete_user call in progress and the callback of the Delete
                 \* button around it: where it stands, its listing;
                 \* history: the records such calls have removed
  flen,          \* the length of the text in the file since it was last truncated
  stable,        \* history: the file content the last completed write left
  config,        \* self.config["similarity_threshold"]
  scripts,       \* self.config["registration_script"] and ["verification_script"]
  config_file,   \* config.json: the threshold and the scripts it holds, or that
                 \* it is cut short
  attr,          \* first_name, last_name and date_of_birth of every User object
  form,          \* self.reg_first_name, self.reg_last_name, self.reg_dob
  screen,        \* what the content frame shows
  listed,        \* the ids behind the Delete buttons of the admin panel
  ver            \* the verification worker threads: where each stands, its locals

conc == <<pc, cur, buf, enum_idx, at_open, del, flen, stable>>
settings == <<config, scripts, config_file>>
ui == <<attr, form, screen, listed, ver>>
vars == <<users_file, uid, new, max_assigned, last, pc, cur, buf, enum_idx, at_open, del, flen,
          stable,
          config, scripts, config_file, attr, form, screen, listed, ver>>

\* the persons who enroll: the names and the date of birth of each; the
\* first name of the second is left empty, the last name has a u umlaut
Person(o) ==
  IF o = "u1"
  THEN [first_name |-> <<"A", "d", "a">>,
        last_name |-> <<"L", "o", "v", "e", "l", "a", "c", "e">>,
        date_of_birth |-> [y |-> 1815, m |-> 12, d |-> 10]]
  ELSE [first_name |-> <<>>, last_name |-> <<"T", "U+00FC", "r", "i", "n", "g">>,
        date_of_birth |-> [y |-> 1912, m |-> 6, d |-> 23]]

\* the attributes User object o was constructed with
FirstName(o) == attr[o].first_name
LastName(o) == attr[o].last_name
BirthDate(o) == attr[o].date_of_birth
\* the vector get_audio_embedding returns for the recording of each of them
Vector(o) == IF o = "u1" THEN Vec(<<3, 4>>) ELSE Vec(<<4, 3>>)
\* embedding=json.dumps(embedding)
Embedding(o) == json_dumps(Vector(o))

\* the User dataclass
User(id, first_name, last_name, date_of_birth, embedding) ==
  [id |-> id, first_name |-> first_name, last_name |-> last_name,
   date_of_birth |-> date_of_birth, embedding |-> embedding]

_user_to_dict(u) ==
  JDict([id |-> u.id, first_name |-> u.first_name, last_name |-> u.last_name,
         date_of_birth |-> isoformat(u.date_of_birth), embedding |-> u.embedding])

\* _dict_to_user(d) returns (TRUE) or raises (FALSE): AttributeError on a
\* value that is no dict, KeyError on a missing key, ValueError on the date
CanDictToUser(d) ==
  /\ d.t = "dict"
  /\ {"first_name", "last_name", "date_of_birth", "embedding"} \subseteq DOMAIN d.d
  /\ ParsesIso(d.d.date_of_birth)

_dict_to_user(d) ==
  User(IF "id" \in DOMAIN d.d THEN d.d.id ELSE None,
       d.d.first_name, d.d.last_name,
       fromisoformat(d.d.date_of_birth), d.d.embedding)

\* DEFAULT_CONFIG["similarity_threshold"]
DefaultThreshold == Float(4, 5)

\* DEFAULT_CONFIG["registration_script"] and ["verification_script"]
DefaultScripts ==
  <<<<"M", "y", " ", "v", "o", "i", "c", "e", " ", "i", "s", " ", "m", "y", " ", "p", "a", "s", "s", "p", "o", "r", "t", ".", " ", "P", "l", "e", "a", "s", "e", " ", "v", "e", "r", "i", "f", "y", " ", "m", "e", ".">>,
    <<"I", " ", "s", "o", "l", "e", "m", "n", "l", "y", " ", "s", "w", "e", "a", "r", " ", "t", "h", "a", "t", " ", "I", " ", "a", "m", " ", "u", "p", " ", "t", "o", " ", "n", "o", " ", "g", "o", "o", "d", ".">>>>

\* a configuration: the dict self.config, and what config.json holds
Config(threshold, texts) == [similarity_threshold |-> threshold, scripts |-> texts]
DEFAULT_CONFIG == Config(DefaultThreshold, DefaultScripts)

\* the enrollment worker threads, and the User each of them constructs
Workers == {"w1", "w2"}
WorkerUser(w) == IF w = "w1" THEN "u1" ELSE "u2"

\* _read_users_file() on file content f: [] for a file that is missing or
\* is not JSON; the UnicodeDecodeError of bytes that are not UTF-8 is
\* neither a JSONDecodeError nor an OSError and leaves the function (Raise)
_read_users_file(f) ==
  IF f.kind = "json"
  THEN IF f.data.t = "dict"
       THEN IF "users" \in DOMAIN f.data.d THEN f.data.d.users ELSE JList(<<>>)
       ELSE f.data
  ELSE IF f.kind = "notutf8" THEN Raise
  ELSE JList(<<>>)

\* _read_users_file has returned raw, and len(raw) and `for d in raw`
\* return (TRUE) or raise TypeError (FALSE)
Iterable(raw) == raw.t \in {"list", "dict", "str"}

\* what `for d in raw` goes through: the entries of a list, the keys of a
\* dict, the characters of a string
Elements(raw) ==
  IF raw.t = "list" THEN raw.v
  ELSE IF raw.t = "dict" THEN [i \in 1..Cardinality(DOMAIN raw.d) |-> JKey]
  ELSE [i \in 1..Len(raw.s) |-> JStr(<<raw.s[i]>>)]

\* [_dict_to_user(d) for d in raw] returns (TRUE) or raises (FALSE)
CanLoadUsers(raw) ==
  /\ Iterable(raw)
  /\ \A i \in 1..Len(Elements(raw)) : CanDictToUser(Elements(raw)[i])

LoadUsers(raw) == [i \in 1..Len(Elements(raw)) |-> _dict_to_user(Elements(raw)[i])]

\* the records a reader of file content f gets; <<>> where the read raises
StoredUsers(f) ==
  LET raw == _read_users_file(f)
  IN IF CanLoadUsers(raw) THEN LoadUsers(raw) ELSE <<>>

\* _write_users_file(users) under a fault of the file system: "none", "open"
\* (write_text cannot open the file: nothing is changed) or "data" (the file
\* was opened, which truncates it, and writing the text failed)
Faults == {"none", "open", "data"}
_write_users_file(users, fault) ==
  CASE fault = "none" -> JsonFile(JDict([users |-> JList(users)]))
    [] fault = "open" -> users_file
    [] OTHER -> BadJson

\* a call and its outcome: s is the session (for a commit of a worker thread,
\* the thread), res is "ok", "True", "False", "raise" (an error of the
\* arguments or of the stored data) or "oserror" (the write failed); n is
\* the number of pending records a commit found, ids the ids it newly
\* assigned, prev the largest id successful commits had assigned before it,
\* out what the call returned to its caller
Returned(op, s, arg, res, out) ==
  [op |-> op, s |-> s, arg |-> arg, res |-> res, n |-> 0, ids |-> {}, prev |-> 0,
   out |-> out]
Call(op, s, arg, res) == Returned(op, s, arg, res, <<>>)
CommitCall(s, fault, res, n, ids) ==
  [op |-> "commit", s |-> s, arg |-> fault, res |-> res, n |-> n, ids |-> ids,
   prev |-> max_assigned, out |-> <<>>]

\* no delete_user call is in progress and no Delete button is being
\* handled; gone are the records that the calls that returned True have
\* removed
NoDelete(gone) ==
  [pc |-> "idle", buf |-> <<>>, id |-> None, raw |-> <<>>, gone |-> gone, ui |-> FALSE]

\* delete_user has returned True or False with the records gone removed so
\* far: to _confirm_delete_user, which shows the message box of the result
\* (showinfo or showerror), or to another caller
AfterDelete(d, gone) ==
  IF d.ui THEN [NoDelete(gone) EXCEPT !.pc = "told", !.id = d.id, !.ui = TRUE]
  ELSE NoDelete(gone)

\* the event loop is free to run the callback of the next click: no
\* callback is under way, and no message box of _confirm_delete_user, which
\* is modal, is open
Idle == del.pc = "idle"

\* the event loop runs what the workers hand it with self.after: no
\* callback is under way, or _confirm_delete_user waits in one of its
\* message boxes, which run the event loop until they are answered
Looping == del.pc \in {"idle", "asked", "told"}

\* the verification worker threads a run starts
Verifiers == {"v1", "v2"}

\* a verification worker that was not started, or has ended and left
\* nothing for the event loop to run
NoVerification == [pc |-> "idle", vec |-> <<>>, users |-> <<>>]

\* the registration form as _build_register_form leaves it
BlankForm == [first_name |-> <<>>, last_name |-> <<>>, dob |-> <<>>]

\* the window after VoiceAuthApp.__init__, no thread started and no User
\* object constructed by a worker
InitUi ==
  /\ enum_idx = [w \in Workers |-> 0]
  /\ at_open = [w \in Workers |-> Missing]
  /\ attr = [o \in Objs |-> Person(o)]
  /\ form = BlankForm
  /\ screen = "register"
  /\ listed = {}
  /\ ver = [v \in Verifiers |-> NoVerification]

Init ==
  /\ users_file = Missing
  /\ uid = [o \in Objs |-> None]
  /\ new = [s \in Sessions |-> <<>>]
  /\ max_assigned = 0
  /\ last = Call("init", "", "", "ok")
  /\ pc = [w \in Workers |-> "idle"]
  /\ cur = [w \in Workers |-> <<>>]
  /\ buf = [w \in Workers |-> <<>>]
  /\ del = NoDelete({})
  /\ flen = 0
  /\ stable = Missing
  /\ config = DefaultThreshold
  /\ scripts = DefaultScripts
  /\ config_file = DEFAULT_CONFIG
  /\ InitUi

\* init_db()
InitDb(fault) ==
  /\ IF users_file.kind = "missing"
     THEN /\ users_file' = _write_users_file(<<>>, fault)
          /\ last' = Call("init_db", "", fault,
                          IF fault = "none" THEN "ok" ELSE "oserror")
     ELSE /\ fault = "none"
          /\ users_file' = users_file
          /\ last' = Call("init_db", "", "", "ok")
  /\ UNCHANGED <<uid, new, max_assigned>>
  /\ UNCHANGED conc
  /\ UNCHANGED settings
  /\ UNCHANGED ui

RECURSIVE SumLen(_)
SumLen(S) ==
  IF S = {} THEN 0
  ELSE LET s == CHOOSE t \in S : TRUE IN Len(new[s]) + SumLen(S \ {s})

TotalPending == SumLen(Sessions)

\* _new as a class attribute, one list shared by every session
AppendNewShared(s, o) == [t \in Sessions |-> Append(new[t], o)]

\* self._new.append(user)
AppendNew(s, o) == [new EXCEPT ![s] = Append(@, o)]

\* _Session.add(user)
Add(s, x) ==
  /\ TotalPending < MaxPending
  /\ IF x = NonUser
     THEN /\ new' = new
          /\ last' = Call("add", s, x, "raise")
     ELSE /\ new' = AppendNew(s, x)
          /\ last' = Call("add", s, x, "ok")
  /\ UNCHANGED <<users_file, uid, max_assigned>>
  /\ UNCHANGED conc
  /\ UNCHANGED settings
  /\ UNCHANGED ui

\* max([u.id for u in current_users if u.id is not None] or [0])
MaxIdOf(users) == SetMax({users[i].id : i \in 1..Len(users)} \ {None})

\* the id the idx-th pending record gets: enumerate(self._new, start=1)
NewId(max_id, idx) == max_id + idx

\* the place of the first occurrence of o in list q
FirstIndex(q, o) == CHOOSE i \in 1..Len(q) : q[i] = o /\ \A j \in 1..(i - 1) : q[j] # o

\* User.id of every object after the loop that assigns the ids: an object
\* whose id is set keeps it, also when the loop itself has just set it
AssignIds(q, max_id) ==
  [o \in Objs |->
     IF o \in Range(q) /\ uid[o] = None THEN NewId(max_id, FirstIndex(q, o))
     ELSE uid[o]]

\* combined_users = current_users + self._new, as it is when it is written
Combined(current_users, q, ids) ==
  current_users \o
  [i \in 1..Len(q) |->
     User(ids[q[i]], FirstName(q[i]), LastName(q[i]), BirthDate(q[i]), Embedding(q[i]))]

ToDicts(users) == [i \in 1..Len(users) |-> _user_to_dict(users[i])]

\* commit without its early return
NeverNothingPending(s) == FALSE

\* if not self._new: return
NothingPending(s) == new[s] = <<>>

\* self._new.clear()
ClearNew(s) == [new EXCEPT ![s] = <<>>]

Larger(a, b) == IF a > b THEN a ELSE b

\* _Session.commit()
Commit(s, fault) ==
  /\ IF NothingPending(s)
     THEN /\ fault = "none"
          /\ last' = CommitCall(s, "", "ok", 0, {})
          /\ UNCHANGED <<users_file, uid, new, max_assigned>>
     ELSE LET current_raw == _read_users_file(users_file)
          IN IF ~CanLoadUsers(current_raw)
             THEN /\ fault = "none"
                  /\ last' = CommitCall(s, "", "raise", Len(new[s]), {})
                  /\ UNCHANGED <<users_file, uid, new, max_assigned>>
             ELSE LET current_users == LoadUsers(current_raw)
                      max_id == MaxIdOf(current_users)
                      ids == AssignIds(new[s], max_id)
                      combined_users == Combined(current_users, new[s], ids)
                      fresh == {ids[o] : o \in {p \in Objs : uid[p] # ids[p]}}
                  IN /\ Len(combined_users) <= MaxStore
                     /\ uid' = ids
                     /\ users_file' = _write_users_file(ToDicts(combined_users), fault)
                     /\ new' = IF fault = "none" THEN ClearNew(s) ELSE new
                     /\ max_assigned' = IF fault = "none"
                                        THEN Larger(max_assigned, SetMax(fresh))
                                        ELSE max_assigned
                     /\ last' = CommitCall(s, fault,
                                           IF fault = "none" THEN "ok" ELSE "oserror",
                                           Len(new[s]), fresh)
  /\ UNCHANGED conc
  /\ UNCHANGED settings
  /\ UNCHANGED ui

\* a query that keeps the listing it loaded first instead of reading the file
QueryCached(f) == _read_users_file(stable)

\* _Query.all(): raw = _read_users_file()
QueryRaw(f) == _read_users_file(f)

\* _Session.query(model).all()
Query(s, model) ==
  /\ IF model # "User"
     THEN last' = Call("query", s, model, "raise")
     ELSE LET raw == QueryRaw(users_file)
          IN IF CanLoadUsers(raw)
             THEN last' = Returned("query", s, model, "ok", LoadUsers(raw))
             ELSE last' = Call("query", s, model, "raise")
  /\ UNCHANGED <<users_file, uid, new, max_assigned>>
  /\ UNCHANGED conc
  /\ UNCHANGED settings
  /\ UNCHANGED ui

\* len(users_raw) and u.get("id") for every u return (TRUE) or raise (FALSE)
CanFilter(raw) ==
  /\ Iterable(raw)
  /\ \A i \in 1..Len(Elements(raw)) : Elements(raw)[i].t = "dict"

\* delete_user(user_id)
DeleteUser(user_id, fault) ==
  /\ IF user_id = NonInt \/ ~CanFilter(_read_users_file(users_file))
     THEN /\ fault = "none"
          /\ users_file' = users_file
          /\ last' = Call("delete_user", "", user_id, "raise")
     ELSE LET users_raw == _read_users_file(users_file)
              users_filtered == Filter(Elements(users_raw), user_id)
          IN IF Len(users_filtered) = Len(Elements(users_raw))
             THEN /\ fault = "none"
                  /\ users_file' = users_file
                  /\ last' = Call("delete_user", "", user_id, "False")
             ELSE /\ users_file' = _write_users_file(users_filtered, fault)
                  /\ last' = Call("delete_user", "", user_id,
                                  IF fault = "none" THEN "True" ELSE "oserror")
  /\ UNCHANGED <<uid, new, max_assigned>>
  /\ UNCHANGED conc
  /\ UNCHANGED settings
  /\ UNCHANGED ui

\* the ids of the entries of a listing that are dicts with an "id"
IdsOf(raw) ==
  IF raw.t # "list" THEN {}
  ELSE {raw.v[i].d.id : i \in {j \in 1..Len(raw.v) :
                                 raw.v[j].t = "dict" /\ "id" \in DOMAIN raw.v[j].d}}

\* the arguments delete_user is called with: every id stored, one id that is
\* not stored, and a value that is not an int
DeleteArgs ==
  LET stored == IdsOf(_read_users_file(users_file)) \ {None}
  IN stored \cup {SetMax(stored) + 1, NonInt}

\* every call, with the file system failing where Fs allows it
NextWith(Fs) ==
  \/ \E fault \in Fs : InitDb(fault)
  \/ \E s \in Sessions, x \in Objs \cup {NonUser} : Add(s, x)
  \/ \E s \in Sessions, fault \in Fs : Commit(s, fault)
  \/ \E s \in Sessions, model \in {"User", "other"} : Query(s, model)
  \/ \E user_id \in DeleteArgs, fault \in Fs : DeleteUser(user_id, fault)

\* any sequence of calls, every write succeeding
Next == NextWith({"none"})
Spec == Init /\ [][Next]_vars

\* any sequence of calls, writes failing at will
NextFault == NextWith(Faults)
SpecFault == Init /\ [][NextFault]_vars

(***************************************************************************)
(* The users files the program may find at start: written by an earlier    *)
(* run, in the legacy format, cut short, or edited by hand.                *)
(***************************************************************************)
\* dict d without key k
Without(d, k) == JDict([x \in DOMAIN d.d \ {k} |-> d.d[x]])
\* dict d with another text as its date of birth
WithDate(d, t) == JDict([d.d EXCEPT !.date_of_birth = t])

StoredAda ==
  _user_to_dict(User(1, Person("u1").first_name, Person("u1").last_name,
                     Person("u1").date_of_birth, json_dumps(Vec(<<3, 4>>))))

Entries ==
  { StoredAda,
    Without(StoredAda, "id"),
    Without(StoredAda, "first_name"),
    WithDate(StoredAda, <<"1", "8", "1", "5", "-", "1", "2", "-", "1">>),
    WithDate(StoredAda, <<"1", "8", "1", "5", "1", "2", "1", "0">>),
    WithDate(StoredAda, <<"1", "8", "1", "5", "-", "W", "4", "9", "-", "7">>),
    WithDate(StoredAda, <<"1", "8", "1", "5", "1", "2", "1", "0", "U+00E9">>),
    JNum }

Listings == UNION {[1..k -> Entries] : k \in 0..MaxEntries}

AnyFiles ==
  {Missing, BadJson, NotUtf8, JsonFile(JNum), JsonFile(JDict([version |-> JNum])),
   JsonFile(JDict([users |-> JNum])), JsonFile(EmptyDict),
   JsonFile(JDict([users |-> EmptyDict])),
   JsonFile(JDict([users |-> JDict([version |-> JNum])])),
   JsonFile(JDict([users |-> JStr(<<>>)])), JsonFile(JStr(<<"a">>))}
  \cup {JsonFile(JList(q)) : q \in Listings}
  \cup {JsonFile(JDict([users |-> JList(q)])) : q \in Listings}

InitAny ==
  /\ users_file \in AnyFiles
  /\ uid = [o \in Objs |-> None]
  /\ new = [s \in Sessions |-> <<>>]
  /\ max_assigned = 0
  /\ last = Call("init", "", "", "ok")
  /\ pc = [w \in Workers |-> "idle"]
  /\ cur = [w \in Workers |-> <<>>]
  /\ buf = [w \in Workers |-> <<>>]
  /\ del = NoDelete({})
  /\ flen = 0
  /\ stable = Missing
  /\ config = DefaultThreshold
  /\ scripts = DefaultScripts
  /\ config_file = DEFAULT_CONFIG
  /\ InitUi

\* any sequence of calls on any users file, every write succeeding
SpecAny == InitAny /\ [][Next]_vars

(***************************************************************************)
(* The application's threads (src/main.py).  VoiceAuthApp holds one        *)
(* session, self.session; every enrollment runs add and commit on it in a  *)
(* background thread, while the admin panel deletes and any thread may     *)
(* read.  A thread can be preempted between any two steps of commit and    *)
(* of delete_user; Path.write_text opens the file, which truncates it,     *)
(* and the text reaches the file when it is closed.                        *)
(***************************************************************************)
\* the number of bytes json.dumps writes for character c of a string
\* (ensure_ascii): two for the quote, the backslash and the control
\* characters with a short escape, six (\uXXXX) for every other character
\* outside blank to tilde, twelve outside the basic plane
EscLen(c) ==
  IF c \in {"\"", "\\", "\n", "\r", "\t", "\f"} THEN 2
  ELSE IF c \notin DOMAIN Named THEN 1
  ELSE IF Named[c] < 65536 THEN 6
  ELSE 12

RECURSIVE StrLen(_)
\* the number of bytes of the string json.dumps writes for text v, its
\* quotes included
StrLen(v) == IF v = <<>> THEN 2 ELSE EscLen(Head(v)) + StrLen(Tail(v))

\* the length of the JSON text of the value of key k
ValueLen(k, v) ==
  IF k = "id" THEN (IF v = None THEN 4 ELSE DecLen(v)) ELSE StrLen(v)

RECURSIVE FieldsLen(_, _)
\* the length of the lines of the keys K of dict d, without their commas
FieldsLen(d, K) ==
  IF K = {} THEN 0
  ELSE LET k == CHOOSE x \in K : TRUE
       IN 6 + Len(k) + 4 + ValueLen(k, d[k]) + 1 + FieldsLen(d, K \ {k})

EntryLen(e) ==
  6 + FieldsLen(e.d, DOMAIN e.d) + (Cardinality(DOMAIN e.d) - 1) + 5

RECURSIVE EntriesLen(_)
EntriesLen(q) == IF q = <<>> THEN 0 ELSE EntryLen(Head(q)) + 2 + EntriesLen(Tail(q))

\* the number of bytes of json.dumps({"users": users}, indent=2), which
\* holds characters of ASCII only
TextLen(users) ==
  IF users = <<>> THEN 17 ELSE 15 + EntriesLen(users) - 1 + 5

\* the file once text of a listing is written at its start over what it holds
Overwritten(users) ==
  IF TextLen(users) >= flen THEN JsonFile(JDict([users |-> JList(users)]))
  ELSE BadJson

Step(name, w) == Call(name, w, "", "")

\* the state after VoiceAuthApp.__init__: init_db has run
InitConc ==
  /\ users_file = JsonFile(JDict([users |-> JList(<<>>)]))
  /\ uid = [o \in Objs |-> None]
  /\ new = [s \in Sessions |-> <<>>]
  /\ max_assigned = 0
  /\ last = Call("init", "", "", "ok")
  /\ pc = [w \in Workers |-> "idle"]
  /\ cur = [w \in Workers |-> <<>>]
  /\ buf = [w \in Workers |-> <<>>]
  /\ del = NoDelete({})
  /\ flen = TextLen(<<>>)
  /\ stable = users_file
  /\ config = DefaultThreshold
  /\ scripts = DefaultScripts
  /\ config_file = DEFAULT_CONFIG
  /\ InitUi

\* a record an earlier run of the application has stored
StoredGrace ==
  _user_to_dict(User(1, <<"G", "r", "a", "c", "e">>, <<"H", "o", "p", "p", "e", "r">>,
                     [y |-> 1906, m |-> 12, d |-> 9], json_dumps(Vec(<<1, 0>>))))

\* the form as the person whose record is User o fills it in
FormOf(o) ==
  [first_name |-> Person(o).first_name, last_name |-> Person(o).last_name,
   dob |-> isoformat(Person(o).date_of_birth)]

\* two enrollments under way at once: Done was clicked for one after the
\* other and each worker has constructed its User; the store is as init_db or
\* an earlier run of the application left it
InitThreads ==
  /\ \E q \in {<<>>, <<StoredGrace>>} :
       /\ users_file = JsonFile(JDict([users |-> JList(q)]))
       /\ flen = TextLen(q)
       /\ max_assigned = Len(q)
  /\ uid = [o \in Objs |-> None]
  /\ new = [s \in Sessions |-> <<>>]
  /\ last = Call("init", "", "", "ok")
  /\ pc = [w \in Workers |-> "built"]
  /\ cur = [w \in Workers |-> <<>>]
  /\ buf = [w \in Workers |-> <<>>]
  /\ enum_idx = [w \in Workers |-> 0]
  /\ at_open = [w \in Workers |-> Missing]
  /\ del = NoDelete({})
  /\ stable = users_file
  /\ config = DefaultThreshold
  /\ scripts = DefaultScripts
  /\ config_file = DEFAULT_CONFIG
  /\ attr = [o \in Objs |-> Person(o)]
  /\ form = FormOf("u2")
  /\ screen = "processing"
  /\ listed = {}
  /\ ver = [v \in Verifiers |-> NoVerification]

\* the records of listing raw that delete_user(user_id) leaves out
Removed(raw, user_id) ==
  {_dict_to_user(raw[i]) : i \in {j \in 1..Len(raw) :
                                    /\ CanDictToUser(raw[j])
                                    /\ "id" \in DOMAIN raw[j].d
                                    /\ raw[j].d.id = user_id}}

\* the worker of an enrollment ends with the error message: except Exception
Failed(w, why) == Returned("register", w, why, "error", <<WorkerUser(w)>>)

\* worker: self.session.add(user)
W_Add(w) ==
  /\ pc[w] = "built"
  /\ new' = AppendNew("app", WorkerUser(w))
  /\ pc' = [pc EXCEPT ![w] = "added"]
  /\ last' = Call("add", "app", WorkerUser(w), "ok")
  /\ UNCHANGED <<users_file, uid, max_assigned, cur, buf, enum_idx, at_open, del, flen, stable>>
  /\ UNCHANGED settings
  /\ UNCHANGED ui

\* worker: commit is called; if not self._new: return
W_Begin(w) ==
  /\ pc[w] = "added"
  /\ IF NothingPending("app")
     THEN /\ pc' = [pc EXCEPT ![w] = "done"]
          /\ last' = CommitCall(w, "", "ok", 0, {})
     ELSE /\ pc' = [pc EXCEPT ![w] = "begun"]
          /\ last' = Step("begin", w)
  /\ UNCHANGED <<users_file, uid, new, max_assigned, cur, buf, enum_idx, at_open, del, flen,
                 stable>>
  /\ UNCHANGED settings
  /\ UNCHANGED ui

\* worker: commit from current_raw = _read_users_file() to max_id = ...
W_Read(w) ==
  /\ pc[w] = "begun"
  /\ LET current_raw == _read_users_file(users_file)
     IN IF CanLoadUsers(current_raw)
        THEN /\ pc' = [pc EXCEPT ![w] = "read"]
             /\ cur' = [cur EXCEPT ![w] = LoadUsers(current_raw)]
             /\ last' = Step("read", w)
        ELSE /\ pc' = [pc EXCEPT ![w] = "failed"]
             /\ cur' = cur
             /\ last' = Failed(w, "raise")
  /\ enum_idx' = [enum_idx EXCEPT ![w] = 0]
  /\ UNCHANGED <<users_file, uid, new, max_assigned, buf, at_open, del, flen, stable>>
  /\ UNCHANGED settings
  /\ UNCHANGED ui

\* worker: one pass of the loop for idx, u in enumerate(self._new, start=1)
\* over the list as it is now: if u.id is None: u.id = max_id + idx
W_Number(w) ==
  /\ pc[w] = "read"
  /\ enum_idx[w] < Len(new["app"])
  /\ LET u == new["app"][enum_idx[w] + 1]
     IN uid' = IF uid[u] = None
               THEN [uid EXCEPT ![u] = NewId(MaxIdOf(cur[w]), enum_idx[w] + 1)]
               ELSE uid
  /\ enum_idx' = [enum_idx EXCEPT ![w] = @ + 1]
  /\ last' = Step("number", w)
  /\ UNCHANGED <<users_file, new, max_assigned, pc, cur, buf, at_open, del, flen, stable>>
  /\ UNCHANGED settings
  /\ UNCHANGED ui

\* worker: the loop finds the list at its end; combined_users =
\* current_users + self._new and the dicts json.dumps is given.  (A thread
\* that sets an id between the two sets it in a record it has appended
\* itself, and what the file holds does not depend on this worker until it
\* writes: the same listing arises with that id set before this step.)
W_Merge(w) ==
  /\ pc[w] = "read"
  /\ enum_idx[w] >= Len(new["app"])
  /\ buf' = [buf EXCEPT ![w] = ToDicts(Combined(cur[w], new["app"], uid))]
  /\ pc' = [pc EXCEPT ![w] = "merged"]
  /\ last' = Step("merge", w)
  /\ UNCHANGED <<users_file, uid, new, max_assigned, cur, enum_idx, at_open, del, flen, stable>>
  /\ UNCHANGED settings
  /\ UNCHANGED ui

\* worker: write_text opens the file, or fails to
W_Open(w, fault) ==
  /\ pc[w] = "merged"
  /\ fault \in {"none", "open"}
  /\ IF fault = "open"
     THEN /\ pc' = [pc EXCEPT ![w] = "failed"]
          /\ last' = Failed(w, fault)
          /\ UNCHANGED <<users_file, flen, at_open>>
     ELSE /\ users_file' = BadJson
          /\ flen' = 0
          /\ at_open' = [at_open EXCEPT ![w] = users_file]
          /\ pc' = [pc EXCEPT ![w] = "opened"]
          /\ last' = Step("open", w)
  /\ UNCHANGED <<uid, new, max_assigned, cur, buf, enum_idx, del, stable>>
  /\ UNCHANGED settings
  /\ UNCHANGED ui

\* worker: write_text writes the text and closes the file, or fails to write
W_Write(w, fault) ==
  /\ pc[w] = "opened"
  /\ fault \in {"none", "data"}
  /\ IF fault = "data"
     THEN /\ pc' = [pc EXCEPT ![w] = "failed"]
          /\ last' = Failed(w, fault)
          /\ UNCHANGED <<users_file, flen, stable>>
     ELSE /\ users_file' = Overwritten(buf[w])
          /\ flen' = Larger(flen, TextLen(buf[w]))
          /\ stable' = users_file'
          /\ pc' = [pc EXCEPT ![w] = "written"]
          /\ last' = Step("write", w)
  /\ at_open' = [at_open EXCEPT ![w] = Missing]
  /\ UNCHANGED <<uid, new, max_assigned, cur, buf, enum_idx, del>>
  /\ UNCHANGED settings
  /\ UNCHANGED ui

\* worker: self._new.clear(), commit returns and the worker hands the
\* success message to the event loop
W_Clear(w) ==
  /\ pc[w] = "written"
  /\ new' = ClearNew("app")
  /\ pc' = [pc EXCEPT ![w] = "done"]
  /\ last' = Returned("register", w, "", "ok", <<WorkerUser(w)>>)
  /\ UNCHANGED <<users_file, uid, max_assigned, cur, buf, enum_idx, at_open, del, flen, stable>>
  /\ UNCHANGED settings
  /\ UNCHANGED ui

\* delete_user(user_id) up to the test of the lengths: the file is read and
\* the listing is filtered.  An exception leaves delete_user and its caller
D_Filter(user_id) ==
  /\ IF user_id = NonInt \/ ~CanFilter(_read_users_file(users_file))
     THEN /\ del' = NoDelete(del.gone)
          /\ last' = Call("delete_user", "", user_id, "raise")
     ELSE LET users_raw == _read_users_file(users_file)
              users_filtered == Filter(Elements(users_raw), user_id)
          IN IF Len(users_filtered) = Len(Elements(users_raw))
             THEN /\ del' = AfterDelete([del EXCEPT !.id = user_id], del.gone)
                  /\ last' = Call("delete_user", "", user_id, "False")
             ELSE /\ del' = [del EXCEPT !.pc = "filtered", !.buf = users_filtered,
                                        !.id = user_id, !.raw = Elements(users_raw)]
                  /\ last' = Step("filter", "ui")
  /\ UNCHANGED <<users_file, uid, new, max_assigned, pc, cur, buf, enum_idx, at_open, flen,
                 stable>>
  /\ UNCHANGED settings
  /\ UNCHANGED ui

\* delete_user(user_id) is called while no other call of it is under way
D_Read(user_id) ==
  /\ del.pc = "idle"
  /\ D_Filter(user_id)

\* delete_user: write_text opens the file, or fails to
D_Open(fault) ==
  /\ del.pc = "filtered"
  /\ fault \in {"none", "open"}
  /\ IF fault = "open"
     THEN /\ del' = NoDelete(del.gone)
          /\ last' = Call("delete_user", "", del.id, "oserror")
          /\ UNCHANGED <<users_file, flen>>
     ELSE /\ users_file' = BadJson
          /\ flen' = 0
          /\ del' = [del EXCEPT !.pc = "opened"]
          /\ last' = Step("open", "ui")
  /\ UNCHANGED <<uid, new, max_assigned, pc, cur, buf, enum_idx, at_open, stable>>
  /\ UNCHANGED settings
  /\ UNCHANGED ui

\* delete_user: write_text writes the text and closes the file, and
\* delete_user returns True; or write_text fails to write
D_Write(fault) ==
  /\ del.pc = "opened"
  /\ fault \in {"none", "data"}
  /\ IF fault = "data"
     THEN /\ del' = NoDelete(del.gone)
          /\ last' = Call("delete_user", "", del.id, "oserror")
          /\ UNCHANGED <<users_file, flen, stable>>
     ELSE /\ users_file' = Overwritten(del.buf)
          /\ flen' = Larger(flen, TextLen(del.buf))
          /\ stable' = users_file'
          /\ del' = AfterDelete(del, del.gone \cup Removed(del.raw, del.id))
          /\ last' = Call("delete_user", "", del.id, "True")
  /\ UNCHANGED <<uid, new, max_assigned, pc, cur, buf, enum_idx, at_open>>
  /\ UNCHANGED settings
  /\ UNCHANGED ui

\* self.session.query(User).all(), on the admin panel or in a verification
R_Query == Query("app", "User")

\* the steps of the add and the commit of the enrollment workers
Enrollment(Fs) ==
  \/ \E w \in Workers : W_Add(w)
  \/ \E w \in Workers : W_Begin(w)
  \/ \E w \in Workers : W_Read(w)
  \/ \E w \in Workers : W_Number(w)
  \/ \E w \in Workers : W_Merge(w)
  \/ \E w \in Workers, fault \in Fs : W_Open(w, fault)
  \/ \E w \in Workers, fault \in Fs : W_Write(w, fault)
  \/ \E w \in Workers : W_Clear(w)

NextConc ==
  \/ Enrollment({"none"})
  \/ \E user_id \in DeleteArgs : D_Read(user_id)
  \/ D_Open("none")
  \/ D_Write("none")
  \/ R_Query

SpecConc == InitThreads /\ [][NextConc]_vars

\* two enrollments at once and nothing else writing: the steps of the two
\* workers in any order, and reads
NextEnroll ==
  \/ Enrollment({"none"})
  \/ R_Query

SpecEnroll == InitThreads /\ [][NextEnroll]_vars

(***************************************************************************)
(* The window of the application (src/main.py).  Every callback of a       *)
(* button runs on the event loop from its start to its return; a click on  *)
(* Done starts a worker thread, which the event loop does not wait for:    *)
(* the callbacks of the navigation bar, of the forms and of the admin      *)
(* panel run between the steps of a worker, and the worker hands its       *)
(* message back with self.after.  A callback that waits in a message box   *)
(* lets the event loop run what the workers have handed over; the clicks   *)
(* on the window wait until the box is answered.                           *)
(***************************************************************************)
\* a verification holds at most this many stored candidates
MaxCandidates == 3

\* what is typed into the threshold field of the settings page
ThresholdEntries ==
  { <<"0">>, <<"0", ".", "6">>, <<"0", ".", "8">>, <<"1">>,
    <<"1", ".", "5">>, <<"-", "0", ".", "1">>, <<"a", "b", "c">>, <<>>,
    <<"N", "a", "N">>, <<"I", "n", "f", "i", "n", "i", "t", "y">>,
    <<" ", "6", "e", "-", "1">>,
    <<"U+000B", "0", ".", "5">>, <<"U+FF10", ".", "U+FF15", "U+00A0">> }

\* what is typed into the registration form by the two persons who enroll:
\* the date of birth as the form asks for it, and without zero padding
EnrollEntries ==
  { FormOf("u1"),
    [FormOf("u2") EXCEPT !.dob = isoformat_unpadded(Person("u2").date_of_birth)] }

\* what is typed into the registration form: the entries above, and dates of
\* birth with slashes, without dashes, with a blank in front of the day, and
\* with a year in full-width digits
FormEntries ==
  EnrollEntries \cup
  { [FormOf("u1") EXCEPT !.dob = <<"1", "0", "/", "1", "2", "/", "1", "8", "1", "5">>],
    [FormOf("u1") EXCEPT !.dob = <<"1", "8", "1", "5", "1", "2", "1", "0">>],
    [FormOf("u2") EXCEPT !.dob = <<"1", "9", "1", "2", "-", "0", "6", "-", " ", "5">>],
    [FormOf("u1") EXCEPT !.dob = <<"U+FF11", "U+FF18", "U+FF11", "U+FF15", "-", "1", "2", "-",
                                   "1", "0">>] }

\* the embeddings of the recordings that are verified
Queries == {Vec(<<1, 0>>), Vec(<<0, 0>>), Vec(<<0, 0, 1>>)}

\* what can fail in a worker before it reaches the store: trimming the
\* silence, extracting the embedding
Upstream == {"trim", "embed"}

\* VoiceAuthApp._build_register_form: the Register button of the navigation
\* bar, and the landing page
NavRegister ==
  /\ Idle
  /\ form' = BlankForm
  /\ screen' = "register"
  /\ last' = Step("register_form", "ui")
  /\ UNCHANGED <<users_file, uid, new, max_assigned, attr, listed, ver>>
  /\ UNCHANGED conc
  /\ UNCHANGED settings

\* the fields of the registration form are filled in
Type(entry) ==
  /\ Idle
  /\ screen = "register"
  /\ form' = entry
  /\ last' = Step("type", "ui")
  /\ UNCHANGED <<users_file, uid, new, max_assigned, attr, screen, listed, ver>>
  /\ UNCHANGED conc
  /\ UNCHANGED settings

\* VoiceAuthApp._registration_instructions: the Next button of the form
R_Next ==
  /\ Idle
  /\ screen = "register"
  /\ IF ~StrptimeParses(form.dob)
     THEN /\ screen' = screen
          /\ last' = Call("register", "ui", form.dob, "invalid")
     ELSE /\ screen' = "instructions"
          /\ last' = Call("next", "ui", form.dob, "ok")
  /\ UNCHANGED <<users_file, uid, new, max_assigned, attr, form, listed, ver>>
  /\ UNCHANGED conc
  /\ UNCHANGED settings

\* VoiceAuthApp._start_registration_recording: the Ready button
R_Ready ==
  /\ Idle
  /\ screen = "instructions"
  /\ screen' = "recording"
  /\ last' = Step("ready", "ui")
  /\ UNCHANGED <<users_file, uid, new, max_assigned, attr, form, listed, ver>>
  /\ UNCHANGED conc
  /\ UNCHANGED settings

\* the worker thread the next click on Done starts
NextWorker == IF pc["w1"] = "idle" THEN "w1" ELSE "w2"

\* VoiceAuthApp._finish_registration_recording: the Done button; the
\* recording is saved and the worker thread is started, whatever the
\* threads started before are doing.  A run starts as many enrollment
\* workers as Workers has elements
R_Done(fault) ==
  /\ Idle
  /\ screen = "recording"
  /\ pc[NextWorker] = "idle"
  /\ screen' = "processing"
  /\ IF fault = "record"
     THEN /\ pc' = pc
          /\ last' = Call("register", "ui", fault, "error")
     ELSE /\ pc' = [pc EXCEPT ![NextWorker] = "started"]
          /\ last' = Step("done", NextWorker)
  /\ UNCHANGED <<users_file, uid, new, max_assigned, attr, form, listed, ver>>
  /\ UNCHANGED <<cur, buf, enum_idx, at_open, del, flen, stable>>
  /\ UNCHANGED settings

\* worker: trim_wav_silence and get_audio_embedding
W_Embed(w, fault) ==
  /\ pc[w] = "started"
  /\ IF fault = "none"
     THEN /\ pc' = [pc EXCEPT ![w] = "embedded"]
          /\ last' = Step("embed", w)
     ELSE /\ pc' = [pc EXCEPT ![w] = "failed"]
          /\ last' = Failed(w, fault)
  /\ UNCHANGED <<users_file, uid, new, max_assigned>>
  /\ UNCHANGED <<cur, buf, enum_idx, at_open, del, flen, stable>>
  /\ UNCHANGED settings
  /\ UNCHANGED ui

\* worker: the arguments of User(...) are evaluated one after the other,
\* each from the form as it is then: first_name=self.reg_first_name.get().
\* attr holds the arguments evaluated so far for the User of the worker
W_FirstName(w) ==
  /\ pc[w] = "embedded"
  /\ pc' = [pc EXCEPT ![w] = "first_name"]
  /\ attr' = [attr EXCEPT ![WorkerUser(w)].first_name = form.first_name]
  /\ last' = Step("first_name", w)
  /\ UNCHANGED <<users_file, uid, new, max_assigned, form, screen, listed, ver>>
  /\ UNCHANGED <<cur, buf, enum_idx, at_open, del, flen, stable>>
  /\ UNCHANGED settings

\* worker: last_name=self.reg_last_name.get()
W_LastName(w) ==
  /\ pc[w] = "first_name"
  /\ pc' = [pc EXCEPT ![w] = "last_name"]
  /\ attr' = [attr EXCEPT ![WorkerUser(w)].last_name = form.last_name]
  /\ last' = Step("last_name", w)
  /\ UNCHANGED <<users_file, uid, new, max_assigned, form, screen, listed, ver>>
  /\ UNCHANGED <<cur, buf, enum_idx, at_open, del, flen, stable>>
  /\ UNCHANGED settings

\* worker: date_of_birth=datetime.strptime(self.reg_dob.get(), ...).date(),
\* which raises on the date it cannot read, and the User is constructed
W_Build(w) ==
  /\ pc[w] = "last_name"
  /\ IF ~StrptimeParses(form.dob)
     THEN /\ pc' = [pc EXCEPT ![w] = "failed"]
          /\ attr' = attr
          /\ last' = Failed(w, "raise")
     ELSE /\ pc' = [pc EXCEPT ![w] = "built"]
          /\ attr' = [attr EXCEPT ![WorkerUser(w)].date_of_birth = strptime(form.dob)]
          /\ last' = Call("build", w, form.dob, "ok")
  /\ UNCHANGED <<users_file, uid, new, max_assigned, form, screen, listed, ver>>
  /\ UNCHANGED <<cur, buf, enum_idx, at_open, del, flen, stable>>
  /\ UNCHANGED settings

\* the event loop runs what the worker handed over after its commit:
\* showinfo("Success", ...) and _build_landing
R_Success(w) ==
  /\ Looping
  /\ pc[w] = "done"
  /\ pc' = [pc EXCEPT ![w] = "shown"]
  /\ form' = BlankForm
  /\ screen' = "register"
  /\ last' = Step("success", w)
  /\ UNCHANGED <<users_file, uid, new, max_assigned, attr, listed, ver>>
  /\ UNCHANGED <<cur, buf, enum_idx, at_open, del, flen, stable>>
  /\ UNCHANGED settings

\* what a verification ends with: the kind of message shown ("Failed" where
\* no embedding of the recording was obtained, "Error" for an exception
\* raised after that), the place and the score of the best candidate, and
\* the similarities computed
Outcome(kind, best_idx, best_score, similarities) ==
  [kind |-> kind, best_idx |-> best_idx, best_score |-> best_score,
   similarities |-> similarities]
NoScore == [t |-> "none"]
ErrorOutcome == Outcome("Error", 0, NoScore, <<>>)
FailedOutcome == Outcome("Failed", 0, NoScore, <<>>)

\* a worker without the test for an empty listing
NeverNoUsers(users) == FALSE

\* if not users
NoUsers(users) == users = <<>>

\* best_score > threshold
PassesStrictly(best_score, threshold) == Gt(best_score, threshold)

\* if best_score >= threshold
Passes(best_score, threshold) == Geq(best_score, threshold)

\* np.array of rows of different lengths: ValueError with NumPy 1.24 and
\* later, an array of list objects before
Inhomogeneous(rows) == \E i, j \in 1..Len(rows) : Len(rows[i]) # Len(rows[j])
RaggedArrays == {"raise", "object"}

\* the verification worker from the listing it has read to its message
Decide(embedding_vec, users, threshold, ragged) ==
  IF NoUsers(users) THEN Outcome("NoEnrollments", 0, NoScore, <<>>)
  ELSE LET embeddings_matrix == [i \in 1..Len(users) |-> json_loads(users[i].embedding)]
           similarities ==
             [i \in 1..Len(users) |-> cos_sim(embedding_vec, embeddings_matrix[i])]
       IN IF Inhomogeneous(embeddings_matrix) /\ ragged = "raise" THEN ErrorOutcome
          ELSE IF similarities = <<>> \/ \E i \in 1..Len(users) : similarities[i] = Raise
          THEN ErrorOutcome
          ELSE LET best_idx == argmax(similarities)
                   best_score == similarities[best_idx]
               IN IF Passes(best_score, threshold)
                  THEN Outcome("Matched", best_idx, best_score, similarities)
                  ELSE Outcome("NoMatch", best_idx, best_score, similarities)

\* the verification worker stands at pc: vec is the embedding of its
\* recording, users the listing its query returned
Verification(p, vec, users) == [pc |-> p, vec |-> vec, users |-> users]

\* the message of a verification of embedding_vec: read tells whether the
\* query of the worker returned, users is the listing it returned
Verified(embedding_vec, read, users, out) ==
  [op |-> "verify", s |-> "app", arg |-> embedding_vec,
   res |-> IF out.kind \in {"Error", "Failed"} THEN "error" ELSE "ok",
   n |-> 0, ids |-> {}, prev |-> 0, out |-> out, read |-> read, users |-> users]

\* VoiceAuthApp._build_verify_form: the Verify button of the navigation bar
NavVerify ==
  /\ Idle
  /\ screen' = "verify"
  /\ last' = Step("verify_form", "ui")
  /\ UNCHANGED <<users_file, uid, new, max_assigned, attr, form, listed, ver>>
  /\ UNCHANGED conc
  /\ UNCHANGED settings

\* VoiceAuthApp._start_verification_recording: the Ready button
V_Ready ==
  /\ Idle
  /\ screen = "verify"
  /\ screen' = "ver_recording"
  /\ last' = Step("ready", "ui")
  /\ UNCHANGED <<users_file, uid, new, max_assigned, attr, form, listed, ver>>
  /\ UNCHANGED conc
  /\ UNCHANGED settings

\* the verification worker thread the next click on Done starts, of the
\* threads Vs
NextVerifier(Vs) == IF ver["v1"].pc = "idle" \/ "v2" \notin Vs THEN "v1" ELSE "v2"

\* VoiceAuthApp._finish_verification_recording: the Done button, for a
\* recording whose embedding is embedding_vec; the recording is saved and
\* the worker thread is started, whatever the threads started before are
\* doing; the thread is v, which no thread alive is
V_Done(v, embedding_vec, fault) ==
  /\ Idle
  /\ screen = "ver_recording"
  /\ screen' = "ver_processing"
  /\ IF fault = "record"
     THEN /\ ver' = ver
          /\ last' = Verified(embedding_vec, FALSE, <<>>, FailedOutcome)
     ELSE /\ ver[v].pc = "idle"
          /\ ver' = [ver EXCEPT ![v] = Verification("started", embedding_vec, <<>>)]
          /\ last' = Call("done", v, embedding_vec, "ok")
  /\ UNCHANGED <<users_file, uid, new, max_assigned, attr, form, listed>>
  /\ UNCHANGED conc
  /\ UNCHANGED settings

\* verification worker: trim_wav_silence and get_audio_embedding
V_Embed(v, fault) ==
  /\ ver[v].pc = "started"
  /\ IF fault = "none"
     THEN /\ ver' = [ver EXCEPT ![v].pc = "embedded"]
          /\ last' = Step("embed", v)
     ELSE /\ ver' = [ver EXCEPT ![v] = NoVerification]
          /\ last' = Verified(ver[v].vec, FALSE, <<>>, FailedOutcome)
  /\ UNCHANGED <<users_file, uid, new, max_assigned, attr, form, screen, listed>>
  /\ UNCHANGED conc
  /\ UNCHANGED settings

\* verification worker: users = self.session.query(User).all(), and the
\* message for a listing that is empty
V_Query(v) ==
  /\ ver[v].pc = "embedded"
  /\ LET raw == QueryRaw(users_file)
     IN IF ~CanLoadUsers(raw)
        THEN /\ ver' = [ver EXCEPT ![v] = NoVerification]
             /\ last' = Verified(ver[v].vec, FALSE, <<>>, ErrorOutcome)
        ELSE IF NoUsers(LoadUsers(raw))
        THEN /\ ver' = [ver EXCEPT ![v] = Verification("report", <<>>, <<>>)]
             /\ last' = Verified(ver[v].vec, TRUE, <<>>,
                                 Decide(ver[v].vec, <<>>, config, "raise"))
        ELSE /\ ver' = [ver EXCEPT ![v] = Verification("queried", ver[v].vec, LoadUsers(raw))]
             /\ last' = Step("query", v)
  /\ UNCHANGED <<users_file, uid, new, max_assigned, attr, form, screen, listed>>
  /\ UNCHANGED conc
  /\ UNCHANGED settings

\* verification worker: from embeddings_matrix = ... to its message, with
\* threshold = float(self.config.get("similarity_threshold", 0.8)) as the
\* configuration is now
V_Decide(v, ragged) ==
  /\ ver[v].pc = "queried"
  /\ LET out == Decide(ver[v].vec, ver[v].users, config, ragged)
     IN /\ ver' = [ver EXCEPT ![v] = IF out.kind = "Error" THEN NoVerification
                                     ELSE Verification("report", <<>>, <<>>)]
        /\ last' = Verified(ver[v].vec, TRUE, ver[v].users, out)
  /\ UNCHANGED <<users_file, uid, new, max_assigned, attr, form, screen, listed>>
  /\ UNCHANGED conc
  /\ UNCHANGED settings

\* the event loop runs what a verification worker handed over with
\* self.after: the message box and _build_verify_form
V_Shown(v) ==
  /\ Looping
  /\ ver[v].pc = "report"
  /\ ver' = [ver EXCEPT ![v] = NoVerification]
  /\ screen' = "verify"
  /\ last' = Step("shown", v)
  /\ UNCHANGED <<users_file, uid, new, max_assigned, attr, form, listed>>
  /\ UNCHANGED conc
  /\ UNCHANGED settings

\* 0 <= value <= 1
InUnitRange(value) == Geq(value, Zero) /\ Geq(One, value)

\* config.json holds text that is not JSON: a write of it failed part-way
Corrupt == [t |-> "corrupt"]

\* config.json ends inside the bytes of a character: a write of it failed
\* there
CutInCharacter == [t |-> "notutf8"]

\* a script of texts holds a character outside ASCII, which save_config
\* writes as its bytes in UTF-8 (ensure_ascii=False)
HasWide(texts) == \E k \in 1..Len(texts) : \E i \in 1..Len(texts[k]) : ~IsAscii(texts[k][i])

\* the faults of a write of config.json: those of the file system, and
\* "split", the write failing inside the bytes of a character
ConfigFaults == Faults \cup {"split"}

\* config.json after save_config(cfg) under a fault of the file system (as
\* _write_users_file: write_text in place)
save_config(cfg, fault) ==
  CASE fault = "none" -> cfg
    [] fault = "open" -> config_file
    [] fault = "split" -> CutInCharacter
    [] OTHER -> Corrupt

\* a write of cfg can fail with fault
CanFail(cfg, fault) == fault = "split" => HasWide(cfg.scripts)

\* load_config(): what it returns (config), what it leaves in config.json
\* (file), and whether it returned ("ok"), the save_config of the defaults,
\* which replaces a file that is not JSON, raised ("oserror"), or the
\* UnicodeDecodeError of a file that is not UTF-8, which is neither a
\* JSONDecodeError nor an OSError, left it ("raise")
load_config(fault) ==
  IF config_file = CutInCharacter
  THEN [config |-> Config(config, scripts), file |-> config_file, res |-> "raise"]
  ELSE IF config_file # Corrupt
  THEN [config |-> config_file, file |-> config_file, res |-> "ok"]
  ELSE [config |-> DEFAULT_CONFIG, file |-> save_config(DEFAULT_CONFIG, fault),
        res |-> IF fault = "none" THEN "ok" ELSE "oserror"]

\* float() of each of the entries, or Raise for its ValueError
EntryValues ==
  [entry \in ThresholdEntries |-> IF FloatParses(entry) THEN float(entry) ELSE Raise]

\* try: value = float(self.threshold_var.get()) / except ValueError
try_float(entry) ==
  IF entry \in ThresholdEntries THEN EntryValues[entry]
  ELSE IF FloatParses(entry) THEN float(entry) ELSE Raise

\* VoiceAuthApp._save_settings with entry in the threshold field: the Save
\* button of the admin panel.  An OSError of save_config is not caught: it
\* leaves the callback after self.config has been set
SaveSettings(entry, fault) ==
  /\ Idle
  /\ screen = "admin"
  /\ IF try_float(entry) = Raise \/ ~InUnitRange(try_float(entry))
     THEN /\ fault = "none"
          /\ config' = config
          /\ config_file' = config_file
          /\ last' = Call("save_settings", "", "", "rejected")
     ELSE /\ CanFail(Config(try_float(entry), scripts), fault)
          /\ config' = try_float(entry)
          /\ config_file' = save_config(Config(config', scripts), fault)
          /\ last' = Call("save_settings", "", "",
                          IF fault = "none" THEN "ok" ELSE "oserror")
  /\ scripts' = scripts
  /\ UNCHANGED <<users_file, uid, new, max_assigned>>
  /\ UNCHANGED conc
  /\ UNCHANGED ui

\* what is typed into the two script fields of the settings page
ScriptEntries ==
  { DefaultScripts,
    <<<<"C", "a", "f", "U+00E9", ",", " ", "o", "l", "U+00E9", ".">>, DefaultScripts[2]>> }

\* VoiceAuthApp._save_scripts with texts in the script fields: the Save
\* Scripts button sets the scripts and writes self.config, the threshold it
\* holds included
SaveScripts(texts, fault) ==
  /\ Idle
  /\ screen = "admin"
  /\ CanFail(Config(config, texts), fault)
  /\ config' = config
  /\ scripts' = texts
  /\ config_file' = save_config(Config(config, texts), fault)
  /\ last' = Call("save_scripts", "", fault, IF fault = "none" THEN "ok" ELSE "oserror")
  /\ UNCHANGED <<users_file, uid, new, max_assigned>>
  /\ UNCHANGED conc
  /\ UNCHANGED ui

\* the ids behind the Delete buttons of a panel that lists users: uid=user.id
ListedIds(users) ==
  {IF users[i].id = None THEN NonInt ELSE users[i].id : i \in 1..Len(users)}

\* the Delete buttons of the admin panel built on file content f; none where
\* the query raises
Listing(f) ==
  IF CanLoadUsers(QueryRaw(f)) THEN ListedIds(LoadUsers(QueryRaw(f))) ELSE {}

\* VoiceAuthApp._build_admin_panel.  The configuration is loaded from
\* config.json again, then the page is built and the stored records are
\* listed
_build_admin_panel(fault) ==
  /\ config_file = Corrupt \/ fault = "none"
  /\ LET loaded == load_config(fault)
         raw == QueryRaw(users_file)
     IN /\ config_file' = loaded.file
        /\ IF loaded.res # "ok"
           THEN /\ UNCHANGED <<config, scripts, screen, listed>>
                /\ last' = Call("admin_panel", "app", fault, loaded.res)
           ELSE /\ config' = loaded.config.similarity_threshold
                /\ scripts' = loaded.config.scripts
                /\ screen' = "admin"
                /\ listed' = Listing(users_file)
                /\ IF CanLoadUsers(raw)
                   THEN last' = Returned("admin_panel", "app", "User", "ok", LoadUsers(raw))
                   ELSE last' = Call("admin_panel", "app", "User", "raise")
  /\ UNCHANGED <<users_file, uid, new, max_assigned, attr, form, ver>>
  /\ UNCHANGED <<pc, cur, buf, enum_idx, at_open, flen, stable>>

\* the Admin button of the navigation bar
AdminPanel(fault) ==
  /\ Idle
  /\ _build_admin_panel(fault)
  /\ del' = del

\* VoiceAuthApp._confirm_delete_user: a Delete button of the admin panel is
\* clicked and askyesno shows the question
ConfirmDelete(user_id) ==
  /\ Idle
  /\ screen = "admin"
  /\ user_id \in listed
  /\ del' = [del EXCEPT !.pc = "asked", !.id = user_id, !.ui = TRUE]
  /\ last' = Call("confirm_delete", "ui", user_id, "asked")
  /\ UNCHANGED <<users_file, uid, new, max_assigned, pc, cur, buf, enum_idx, at_open, flen,
                 stable>>
  /\ UNCHANGED settings
  /\ UNCHANGED ui

\* _confirm_delete_user: the question is answered with no; return
C_No ==
  /\ del.pc = "asked"
  /\ del' = NoDelete(del.gone)
  /\ last' = Call("confirm_delete", "ui", del.id, "no")
  /\ UNCHANGED <<users_file, uid, new, max_assigned, pc, cur, buf, enum_idx, at_open, flen,
                 stable>>
  /\ UNCHANGED settings
  /\ UNCHANGED ui

\* _confirm_delete_user: the question is answered with yes and
\* delete_user(user_id) is called, for the id of the button, whatever the
\* page shows by now
C_Yes ==
  /\ del.pc = "asked"
  /\ D_Filter(del.id)

\* _confirm_delete_user: the message box of the result is closed and
\* self._build_admin_panel() builds the panel, whatever the page shows by now
C_Refresh(fault) ==
  /\ del.pc = "told"
  /\ _build_admin_panel(fault)
  /\ del' = NoDelete(del.gone)

\* a Delete button of the admin panel from the click to the panel built
\* again, the write of users.json failing as Fs allows
Deleting(Fs) ==
  \/ \E user_id \in listed : ConfirmDelete(user_id)
  \/ C_No
  \/ C_Yes
  \/ \E fault \in Fs : D_Open(fault)
  \/ \E fault \in Fs : D_Write(fault)
  \/ C_Refresh("none")

\* the registration form up to the recording
Registration(Es) ==
  \/ NavRegister
  \/ \E entry \in Es : Type(entry)
  \/ R_Next
  \/ R_Ready

\* an enrollment from the start of its worker to its message
Enrolling(Fs) ==
  \/ \E w \in Workers, fault \in Upstream \cup {"none"} : W_Embed(w, fault)
  \/ \E w \in Workers : W_FirstName(w)
  \/ \E w \in Workers : W_LastName(w)
  \/ \E w \in Workers : W_Build(w)
  \/ Enrollment(Fs)
  \/ \E w \in Workers : R_Success(w)

\* every verification from the Verify button to the message of its
\* worker, at most as many verification workers alive at once as Vs has
\* elements
Verifying(Vs) ==
  \/ NavVerify
  \/ V_Ready
  \/ \E embedding_vec \in Queries, fault \in {"none", "record"} :
       V_Done(NextVerifier(Vs), embedding_vec, fault)
  \/ \E v \in Vs, fault \in Upstream \cup {"none"} : V_Embed(v, fault)
  \/ \E v \in Vs : V_Query(v)
  \/ \E v \in Vs, ragged \in RaggedArrays : V_Decide(v, ragged)
  \/ \E v \in Vs : V_Shown(v)

\* two enrollments whose workers run at once: Done is clicked for the second
\* while the worker of the first is anywhere between its start and its
\* message, and the form is filled in again in between
NextOverlap ==
  \/ Registration({FormOf("u1")})
  \/ \E fault \in {"none", "record"} : R_Done(fault)
  \/ Enrolling({"none"})

SpecOverlap == InitConc /\ [][NextOverlap]_vars

\* a Delete button while the enrollment after the one it deletes runs, the
\* writes of delete_user failing at will
NextDelete ==
  \/ Registration({FormOf("u1")})
  \/ /\ \A w \in Workers : pc[w] \in {"idle", "done", "shown", "failed"}
     /\ \E fault \in {"none", "record"} : R_Done(fault)
  \/ Enrolling({"none"})
  \/ AdminPanel("none")
  \/ Deleting(Faults)

SpecDelete == InitConc /\ [][NextDelete]_vars

\* enrollments and the Delete buttons of the admin panel in one run of the
\* application: the steps of delete_user and the message boxes of its
\* callback come between the steps of the workers.  The writes of the
\* workers fail at will.
\* In this run Done is clicked for an enrollment once the worker of the
\* enrollment before has ended (the overlapping clicks are in SpecOverlap,
\* SpecEnroll and SpecLarge), and the writes of delete_user succeed (they
\* fail in SpecDelete and, with no thread running, in SpecFault)
NextApp ==
  \/ Registration(EnrollEntries)
  \/ /\ \A w \in Workers : pc[w] \in {"idle", "done", "shown", "failed"}
     /\ \E fault \in {"none", "record"} : R_Done(fault)
  \/ Enrolling(Faults)
  \/ AdminPanel("none")
  \/ Deleting({"none"})

SpecApp == InitConc /\ [][NextApp]_vars

(***************************************************************************)
(* Verification on any store of enrolled records.                          *)
(***************************************************************************)
\* the embeddings of the records a store may hold
CandidateVectors == {Vec(<<3, 4>>), Vec(<<4, 3>>), Vec(<<0, 0, 0>>)}

\* the record stored with id i and the embedding v
Enrolled(i, v) ==
  _user_to_dict(User(i, Person("u1").first_name, Person("u1").last_name,
                     Person("u1").date_of_birth, json_dumps(v)))

CandidateLists == UNION {[1..k -> CandidateVectors] : k \in 0..MaxCandidates}

InitVerify ==
  /\ \E q \in CandidateLists :
       users_file = JsonFile(JDict([users |-> JList([i \in 1..Len(q) |-> Enrolled(i, q[i])])]))
  /\ uid = [o \in Objs |-> None]
  /\ new = [s \in Sessions |-> <<>>]
  /\ max_assigned = 0
  /\ last = Call("init", "", "", "ok")
  /\ pc = [w \in Workers |-> "idle"]
  /\ cur = [w \in Workers |-> <<>>]
  /\ buf = [w \in Workers |-> <<>>]
  /\ del = NoDelete({})
  /\ flen = 0
  /\ stable = Missing
  /\ config = DefaultThreshold
  /\ scripts = DefaultScripts
  /\ config_file = DEFAULT_CONFIG
  /\ InitUi

\* verifications, one worker at a time, while the admin panel sets the
\* threshold
NextVerify ==
  \/ Verifying({"v1"})
  \/ AdminPanel("none")
  \/ \E entry \in ThresholdEntries : SaveSettings(entry, "none")

SpecVerify == InitVerify /\ [][NextVerify]_vars

(***************************************************************************)
(* Verifications that overlap, on stores that also hold embeddings with    *)
(* components too large to be squared in a float64.                        *)
(***************************************************************************)
\* a store of these holds at most this many records
MaxLarge == 2

\* the embeddings of the records such a store may hold
LargeVectors == CandidateVectors \cup {Scaled(<<3, 4>>, 200)}

LargeLists == UNION {[1..k -> LargeVectors] : k \in 0..MaxLarge}

InitLarge ==
  /\ \E q \in LargeLists :
       users_file = JsonFile(JDict([users |-> JList([i \in 1..Len(q) |-> Enrolled(i, q[i])])]))
  /\ uid = [o \in Objs |-> None]
  /\ new = [s \in Sessions |-> <<>>]
  /\ max_assigned = 0
  /\ last = Call("init", "", "", "ok")
  /\ pc = [w \in Workers |-> "idle"]
  /\ cur = [w \in Workers |-> <<>>]
  /\ buf = [w \in Workers |-> <<>>]
  /\ del = NoDelete({})
  /\ flen = 0
  /\ stable = Missing
  /\ config = DefaultThreshold
  /\ scripts = DefaultScripts
  /\ config_file = DEFAULT_CONFIG
  /\ InitUi

\* verifications, Done clicked while the worker of the click before runs
NextLarge == Verifying(Verifiers)

SpecLarge == InitLarge /\ [][NextLarge]_vars

\* the registration form up to the recording and the settings of the admin
\* panel in one run of the application, the writes of config.json failing
\* at will
NextSettings ==
  \/ Registration(FormEntries)
  \/ \E fault \in Faults : AdminPanel(fault)
  \/ \E entry \in ThresholdEntries, fault \in ConfigFaults : SaveSettings(entry, fault)
  \/ \E texts \in ScriptEntries, fault \in ConfigFaults : SaveScripts(texts, fault)

SpecSettings == InitConc /\ [][NextSettings]_vars

(***************************************************************************)
(* The claims.                                                             *)
(***************************************************************************)
\* the ids of the records a reader gets, in stored order
StoredIds(f) == [i \in 1..Len(StoredUsers(f)) |-> StoredUsers(f)[i].id]

\* list q without its k-th element
RemoveAt(q, k) == SubSeq(q, 1, k - 1) \o SubSeq(q, k + 1, Len(q))

\* the pending records of list q as they are stored when the k-th of them
\* gets the id m + k
Numbered(q, m) ==
  [k \in 1..Len(q) |->
     User(m + k, FirstName(q[k]), LastName(q[k]), BirthDate(q[k]), Embedding(q[k]))]

\* C1: after any sequence of add, commit and delete_user calls on an empty
\* store, the ids of the persisted records are pairwise distinct.
C1_StoredIdsDistinct ==
  LET ids == StoredIds(users_file)
  IN \A i, j \in 1..Len(ids) : i # j => ids[i] # ids[j]

\* C2: every id a successful commit newly assigns is greater than every id an
\* earlier successful commit assigned, deleted records included.
C2_IdsNeverReused ==
  (last.op = "commit" /\ last.res = "ok") => \A i \in last.ids : i > last.prev

\* C3: a successful commit of pending records p1..pN on a store holding S
\* gives p_k the id max(ids of S, default 0) + k and leaves the store holding
\* S followed by p1..pN.
C3_CommitNumbersInOrder ==
  [][\A s \in Sessions :
       (last'.op = "commit" /\ last'.s = s /\ last'.res = "ok" /\ new[s] # <<>>)
         => LET S == StoredUsers(users_file)
                m == MaxIdOf(S)
            IN /\ StoredUsers(users_file') = S \o Numbered(new[s], m)
               /\ \A k \in 1..Len(new[s]) : uid'[new[s][k]] = m + k]_vars

\* C4: a commit whose write fails leaves the readable content of the store
\* as it was, and the pending list holding all its records.
C4_FailedCommitKeepsStore ==
  [][\A s \in Sessions :
       (last'.op = "commit" /\ last'.s = s /\ last'.res = "oserror")
         => /\ StoredUsers(users_file') = StoredUsers(users_file)
            /\ new'[s] = new[s]]_vars

\* C5: a read that runs while a commit or a delete_user is writing gets the
\* whole listing from before that write or the whole listing it writes.
C5_ReadersSeeWholeListings ==
  (last.op = "query" /\ last.res = "ok")
    => LET seen == StoredUsers(users_file)
       IN \/ seen = StoredUsers(stable)
          \/ \E w \in Workers : pc[w] = "opened" /\ seen = LoadUsers(JList(buf[w]))
          \/ del.pc = "opened" /\ seen = LoadUsers(JList(del.buf))

\* C6: delete_user(id) removes exactly one record, one with that id, leaves
\* the others as they were and returns True when the store holds that id;
\* otherwise it returns False and leaves the store unchanged.
C6_DeleteRemovesExactlyOne ==
  [][(last'.op = "delete_user" /\ last'.arg # NonInt)
       => LET S == StoredUsers(users_file)
              id == last'.arg
          IN IF \E k \in 1..Len(S) : S[k].id = id
             THEN /\ last'.res = "True"
                  /\ \E k \in 1..Len(S) :
                       /\ S[k].id = id
                       /\ StoredUsers(users_file') = RemoveAt(S, k)
             ELSE /\ last'.res = "False"
                  /\ users_file' = users_file]_vars

\* C7: add raises, and leaves the pending list unchanged, for every argument
\* that is no User and for every User whose id is set.
C7_AddRejectsPersisted ==
  [][(last'.op = "add" /\ (last'.arg = NonUser \/ uid[last'.arg] # None))
       => (last'.res = "raise" /\ new' = new)]_vars

\* C8: add changes neither the store, nor what a query returns, nor the
\* pending list of another session; a commit writes the pending records of
\* its own session only and leaves the pending lists of the others alone.
C8_AddTouchesOwnSessionOnly ==
  [][\A s \in Sessions :
       /\ (last'.op = "add" /\ last'.s = s)
            => /\ users_file' = users_file
               /\ StoredUsers(users_file') = StoredUsers(users_file)
               /\ \A t \in Sessions \ {s} : new'[t] = new[t]
       /\ (last'.op = "commit" /\ last'.s = s)
            => /\ \A t \in Sessions \ {s} : new'[t] = new[t]
               /\ last'.res = "ok" =>
                    Len(StoredUsers(users_file')) =
                      Len(StoredUsers(users_file)) + Len(new[s])]_vars

\* a record that was never committed was added to one session while another
\* session holds another pending record, and a reader of the store gets none
C8_Witness ==
  /\ last.op = "add" /\ last.res = "ok" /\ last.s = "app"
  /\ uid[last.arg] = None
  /\ new["app"] = <<last.arg>>
  /\ new["other"] # <<>> /\ last.arg \notin Range(new["other"])
  /\ users_file.kind = "json"
  /\ StoredUsers(users_file) = <<>>

\* C9: a commit on an empty pending list returns without touching the store,
\* and a successful commit leaves its pending list empty, so that a second
\* commit right after it writes nothing.
C9_EmptyCommitIsNoop ==
  [][\A s \in Sessions :
       (last'.op = "commit" /\ last'.s = s)
         => /\ new[s] = <<>> =>
                 /\ last'.res = "ok"
                 /\ users_file' = users_file
                 /\ uid' = uid
                 /\ new' = new
            /\ last'.res = "ok" => new'[s] = <<>>]_vars

\* a commit found nothing pending on a store that holds records
C9_Witness ==
  /\ last.op = "commit" /\ last.res = "ok" /\ last.n = 0
  /\ StoredUsers(users_file) # <<>>

\* C10: query, commit and delete_user never raise on a users file that is
\* missing or malformed.
C10_ReadNeverRaises ==
  (\/ last.op = "query" /\ last.arg = "User"
   \/ last.op = "commit"
   \/ last.op = "delete_user" /\ last.arg # NonInt)
    => last.res # "raise"

\* what a fresh query on file content f returns; <<>> where it raises
ReadBack(f) ==
  LET raw == QueryRaw(f) IN IF CanLoadUsers(raw) THEN LoadUsers(raw) ELSE <<>>

\* the object o as a record, with the id it has in the next state
AsStored(o) == User(uid'[o], FirstName(o), LastName(o), BirthDate(o), Embedding(o))

RECURSIVE WithoutId(_, _)
\* the records of list q whose id is not user_id, in order
WithoutId(q, user_id) ==
  IF q = <<>> THEN <<>>
  ELSE IF Head(q).id = user_id THEN WithoutId(Tail(q), user_id)
  ELSE <<Head(q)>> \o WithoutId(Tail(q), user_id)

\* C11: a query on any session returns exactly the records now persisted, in
\* stored order: after a successful commit by any session these are the
\* records stored before followed by the committed ones, after a successful
\* delete_user the records stored before without the deleted id.
C11_QueryReflectsStore ==
  [][/\ (last'.op = "query" /\ last'.arg = "User")
          => /\ last'.res = "ok"
             /\ last'.out = StoredUsers(users_file)
             /\ users_file' = users_file
     /\ \A s \in Sessions :
          (last'.op = "commit" /\ last'.s = s /\ last'.res = "ok")
            => ReadBack(users_file') =
                 StoredUsers(users_file) \o [k \in 1..Len(new[s]) |-> AsStored(new[s][k])]
     /\ (last'.op = "delete_user" /\ last'.res = "True")
          => ReadBack(users_file') = WithoutId(StoredUsers(users_file), last'.arg)]_vars

\* a query on one session returned the one record left of two that commits
\* had stored, every pending list being empty
C11_Witness ==
  /\ last.op = "query" /\ last.s = "other" /\ last.res = "ok"
  /\ Len(last.out) = 1 /\ last.out = StoredUsers(users_file)
  /\ \A o \in Objs : uid[o] # None
  /\ uid["u1"] # uid["u2"]
  /\ \A s \in Sessions : new[s] = <<>>

\* C12: a record added and committed, then read back by a fresh query, has
\* the first_name, last_name, date_of_birth and embedding of the record that
\* was added, and the id the commit assigned.
C12_RoundTrip ==
  [][\A s \in Sessions :
       (last'.op = "commit" /\ last'.s = s /\ last'.res = "ok")
         => LET before == Len(StoredUsers(users_file))
                back == ReadBack(users_file')
            IN /\ Len(back) = before + Len(new[s])
               /\ \A k \in 1..Len(new[s]) :
                    LET o == new[s][k]
                        r == back[before + k]
                    IN /\ r.first_name = FirstName(o)
                       /\ r.last_name = LastName(o)
                       /\ r.date_of_birth = BirthDate(o)
                       /\ r.embedding = Embedding(o)
                       /\ r.id = uid'[o]
                       /\ r.id # None]_vars

\* a commit has stored two records, and a fresh read returns both
C12_Witness ==
  /\ last.op = "commit" /\ last.res = "ok" /\ last.n = 2
  /\ Len(StoredUsers(users_file)) = 2
  /\ StoredUsers(users_file)[1].id # StoredUsers(users_file)[2].id

\* the vectors of the candidates the worker of the last verification read
ReadVectors == [i \in 1..Len(last.users) |-> json_loads(last.users[i].embedding)]

IsZeroVector(a) == \A i \in 1..Len(a) : a[i].m = 0

\* a verification has computed a score for every candidate it read
Scored == last.op = "verify" /\ last.out.kind \in {"Matched", "NoMatch"}

\* C13: the candidate a verification selects is the first, in stored order,
\* whose similarity equals the largest similarity; with the scores
\* [0.6, 0.8, 0.8] it is the second, not the third.
C13_StableArgmax ==
  Scored
    => LET sims == last.out.similarities
           best == last.out.best_idx
       IN /\ Len(sims) = Len(last.users)
          /\ best \in 1..Len(sims)
          /\ \A j \in 1..Len(sims) : Geq(sims[best], sims[j])
          /\ \A j \in 1..(best - 1) : sims[j] # sims[best]

\* three candidates scored 0.6, 0.8 and 0.8, and the second was matched
C13_Witness ==
  /\ Scored /\ last.out.kind = "Matched"
  /\ last.out.similarities = <<Float(3, 5), Float(4, 5), Float(4, 5)>>
  /\ last.out.best_idx = 2

\* the largest of the scores of a non-empty list
Largest(sims) == sims[CHOOSE i \in 1..Len(sims) : \A j \in 1..Len(sims) : Geq(sims[i], sims[j])]

\* C14: on a non-empty candidate set the outcome is Matched, for the best
\* candidate, exactly when the best score is at least the threshold, equal
\* included, and NoMatch otherwise; both carry the best score.  The
\* threshold is the one in force when the worker decides.
C14_ThresholdInclusive ==
  (last.op = "verify" /\ last.res = "ok" /\ last.users # <<>>)
    => /\ Scored
       /\ last.out.best_score = Largest(last.out.similarities)
       /\ last.out.best_score = last.out.similarities[last.out.best_idx]
       /\ last.out.kind = "Matched" <=> Geq(Largest(last.out.similarities), config)

\* a candidate was matched with a score equal to a threshold that a
\* settings save had set
C14_Witness ==
  /\ Scored /\ last.out.kind = "Matched"
  /\ last.out.best_score = config
  /\ config = Float(3, 5)

\* C15: verification against an empty store ends with NoEnrollments for every
\* query and every threshold: an outcome, not an error, and without any
\* similarity computed.
C15_EmptyStoreNoEnrollments ==
  (last.op = "verify" /\ last.read /\ last.users = <<>>)
    => /\ last.res = "ok"
       /\ last.out = Outcome("NoEnrollments", 0, NoScore, <<>>)

\* a recording was verified against the empty store under a threshold other
\* than the default
C15_Witness ==
  /\ last.op = "verify" /\ last.out.kind = "NoEnrollments"
  /\ last.arg = Vec(<<0, 0, 1>>)
  /\ config = One
  /\ _read_users_file(users_file) = JList(<<>>)

\* C16: a zero vector scores 0 against everything: a zero query gets the
\* score 0 for every candidate and no error, and a zero stored embedding is
\* scored 0 for every query.
C16_ZeroVectorScoresZero ==
  (last.op = "verify" /\ last.read)
    => LET rows == ReadVectors
       IN /\ (IsZeroVector(last.arg) /\ rows # <<>> /\ ~Inhomogeneous(rows))
               => /\ Scored
                  /\ \A i \in 1..Len(rows) : last.out.similarities[i] = Zero
          /\ Scored
               => \A i \in 1..Len(rows) :
                    IsZeroVector(rows[i]) => last.out.similarities[i] = Zero

\* C17: a verification whose query differs in dimension from a stored
\* embedding ends in an error, never in Matched or NoMatch.
C17_MismatchIsError ==
  (last.op = "verify" /\ last.read)
    => LET rows == ReadVectors
       IN (\E i \in 1..Len(rows) : Len(rows[i]) # Len(last.arg))
            => last.out.kind = "Error"

\* the worker of an enrollment ends with the error message in this step
WorkerFails(w) == pc[w] # "failed" /\ pc'[w] = "failed"

\* C18: an enrollment or a verification that ends in an error leaves the
\* store as it was: a reader gets the records it got before the workflow
\* wrote, or would have written, anything.
C18_FailedWorkflowKeepsStore ==
  [][/\ \A w \in Workers :
          WorkerFails(w)
            => StoredUsers(users_file') =
                 StoredUsers(IF pc[w] = "opened" THEN at_open[w] ELSE users_file)
     /\ (last'.op \in {"register", "verify"} /\ last'.res = "error"
           /\ \A w \in Workers : ~WorkerFails(w))
          => users_file' = users_file]_vars

\* C19: every stored record has a first_name and a last_name that are not
\* empty.
C19_StoredNamesNonEmpty ==
  \A i \in 1..Len(StoredUsers(users_file)) :
    /\ StoredUsers(users_file)[i].first_name # <<>>
    /\ StoredUsers(users_file)[i].last_name # <<>>

\* a text in year-month-day form: three groups of decimal digits, of any
\* script, with a dash between them
YearMonthDay(t) ==
  \E i, j \in 1..Len(t) :
    /\ 1 < i /\ i + 1 < j /\ j < Len(t)
    /\ t[i] = "-" /\ t[j] = "-"
    /\ AllDecimal(SubSeq(t, 1, i - 1))
    /\ AllDecimal(SubSeq(t, i + 1, j - 1))
    /\ AllDecimal(SubSeq(t, j + 1, Len(t)))

\* the thresholds a settings save may leave: 0, 0.5, 0.6, 0.8 and 1
UnitThresholds == {Zero, Float(1, 2), Float(3, 5), Float(4, 5), One}

\* the threshold entries that are numbers from 0 to 1, blanks around them
\* and digits of another script included
UnitEntries ==
  {<<"0">>, <<"0", ".", "6">>, <<"0", ".", "8">>, <<"1">>, <<" ", "6", "e", "-", "1">>,
   <<"U+000B", "0", ".", "5">>, <<"U+FF10", ".", "U+FF15", "U+00A0">>}

\* a settings save with an entry that is no number from 0 to 1 rejects it
\* and leaves the configuration in memory and on disk as it was
BadThresholdRejected ==
  last'.op = "save_settings"
    => \A entry \in ThresholdEntries \ UnitEntries, fault \in ConfigFaults :
         SaveSettings(entry, fault)
           => /\ last'.res = "rejected"
              /\ config' = config
              /\ config_file' = config_file

\* Next on a form whose date of birth is not in year-month-day form shows the
\* error and leaves the form on the screen: the page with the Ready button is
\* not shown, so nothing is recorded, no worker is started, nothing is added
\* or committed
BadDateRejected ==
  (R_Next /\ ~YearMonthDay(form.dob))
    => /\ last'.res = "invalid"
       /\ screen' = "register"
       /\ UNCHANGED <<users_file, uid, new, pc, attr>>

\* C20: a threshold entry that is no number from 0 to 1 is rejected and
\* leaves the configuration in memory and on disk as it was; a date of birth
\* not in year-month-day form is rejected before anything is recorded, added
\* or committed; the threshold stays within [0, 1] from the default on, in
\* memory and in what config.json is read as.
C20_ValidationKeepsState ==
  [][/\ BadThresholdRejected
     /\ BadDateRejected
     /\ config' \in UnitThresholds
     /\ load_config("none").config.similarity_threshold' \in UnitThresholds]_vars

\* file content f holds a record with the attributes of User o
Holds(f, o) ==
  \E k \in 1..Len(StoredUsers(f)) :
    LET r == StoredUsers(f)[k]
    IN /\ r.first_name = FirstName(o)
       /\ r.last_name = LastName(o)
       /\ r.date_of_birth = BirthDate(o)
       /\ r.embedding = Embedding(o)

\* the records of the enrollments whose commit failed and whose worker has
\* reported the error: they are pending on the application's session
FailedEnrollments ==
  {o \in Range(new["app"]) : \E w \in Workers : WorkerUser(w) = o /\ pc[w] = "failed"}

\* C21: a failed persist is never retried: no operation of the application
\* after an enrollment whose commit failed writes the record of that
\* enrollment to the store.
C21_FailedPersistNotRetried ==
  [][\A o \in FailedEnrollments :
       ~Holds(users_file, o) => ~Holds(users_file', o)]_vars

\* the number of records with the attributes of User o that file content f holds
Copies(f, o) ==
  Cardinality({k \in 1..Len(StoredUsers(f)) :
                 LET r == StoredUsers(f)[k]
                 IN /\ r.first_name = FirstName(o)
                    /\ r.last_name = LastName(o)
                    /\ r.date_of_birth = BirthDate(o)
                    /\ r.embedding = Embedding(o)})

\* no commit and no delete_user is under way
Quiet ==
  /\ \A w \in Workers : pc[w] \in {"built", "done", "failed"}
  /\ del.pc = "idle"

\* C22: when two enrollment workers run at once on the application's
\* session, every worker whose add and commit returned without error has
\* its record in the store once both are through, exactly once.
C22_NoEnrollmentLost ==
  Quiet => \A w \in Workers : pc[w] = "done" => Copies(users_file, WorkerUser(w)) = 1

\* no record a delete_user that returned True has removed is in the store
DeletedStayOut ==
  \A r \in del.gone : r \notin Range(StoredUsers(users_file))

\* a delete_user that returns True leaves in the store the record of every
\* worker whose commit has returned and whose record has another id
DeleteSparesOthers ==
  (last'.op = "delete_user" /\ last'.res = "True")
    => \A w \in Workers :
         (/\ pc[w] = "done"
          /\ uid[WorkerUser(w)] # last'.arg
          /\ Holds(stable, WorkerUser(w)))
           => Holds(users_file', WorkerUser(w))

\* C23: deletion is final under interleaving with a commit: once
\* delete_user(id) has returned True the record it removed is never in the
\* store again, and a delete_user that overlaps a commit removes no record
\* of another id whose commit has returned.
C23_DeletionIsFinal ==
  [][DeletedStayOut' /\ DeleteSparesOthers]_vars

\* a failed commit leaves User.id of every pending record as it was
FailedCommitKeepsIds ==
  \A s \in Sessions :
    (last'.op = "commit" /\ last'.s = s /\ last'.res = "oserror")
      => \A o \in Range(new[s]) : uid'[o] = uid[o]

\* the pending records of session s that carry an id and are not in the
\* store: a commit has numbered them and its write failed, or they were
\* stored once and deleted before they were added again
Retried(s) == {o \in Range(new[s]) : uid[o] # None /\ ~Holds(users_file, o)}

\* a successful commit gives every such record an id above every id in the
\* store it read, and leaves the ids of the store pairwise distinct
RetryNumbersAfresh ==
  \A s \in Sessions :
    (last'.op = "commit" /\ last'.s = s /\ last'.res = "ok" /\ Retried(s) # {})
      => /\ \A o \in Retried(s) :
              \A j \in IdsOf(_read_users_file(users_file)) : uid'[o] > j
         /\ LET ids == StoredIds(users_file')
            IN \A i, j \in 1..Len(ids) : i # j => ids[i] # ids[j]

\* C24: a failed commit leaves the id of each pending record unset, so that
\* a successful retry, after commits and deletes of other sessions, gives
\* the retried records ids greater than every id then in the store and the
\* ids of the store stay pairwise distinct.
C24_RetryAssignsFreshIds ==
  [][FailedCommitKeepsIds /\ RetryNumbersAfresh]_vars

====
